---- MODULE Spec2Model ----
(***************************************************************************)
(* A model of the macaroon bakery's authorization checker                  *)
(* (bakery.Checker / bakery.AuthChecker, src/bakery/checker.go) together   *)
(* with the collaborators it calls: the MacaroonOpStore, the first-party   *)
(* caveat checker, the IdentityClient and the Authorizer.                  *)
(***************************************************************************)
EXTENDS Integers, Sequences, FiniteSets, TLC

----------------------------------------------------------------------------
(* Bounds of the model.                                                     *)

\* largest number of macaroon slices presented to Checker.Auth
MaxSlices == 2
\* largest number of operations in one Allow/AllowAny/AllowCapability call
MaxOps == 2
\* largest number of calls one caller makes on the AuthChecker
MaxCalls == 2
\* the fake clock of a context reads a time in 0..MaxTime
MaxTime == 1

----------------------------------------------------------------------------
(* Values.                                                                  *)

\* The nil Identity.
NoIdentity == "nil"

LoginOp == [Entity |-> "login", Action |-> "login"]
ReadOp == [Entity |-> "e1", Action |-> "read"]
WriteOp == [Entity |-> "e1", Action |-> "write"]
Ops == {LoginOp, ReadOp, WriteOp}

\* The requested op lists: every list of at most MaxOps ops.
OpLists == UNION {[1..n -> Ops] : n \in 0..MaxOps}

\* First-party caveat conditions "<name> <arg>".
TimeBefore(t) == [name |-> "time-before", t |-> t, s |-> ""]
Declared(u) == [name |-> "declared", t |-> 0, s |-> u]
\* checkers.AllowCaveat(action) and the tests' strCaveat(s)
AllowCaveat(action) == [name |-> "allow", t |-> 0, s |-> action]
strCaveat(s) == [name |-> "str", t |-> 0, s |-> s]

\* A context carries the clock injected with checkers.ContextWithClock and
\* the string of the tests' strContext ("" for context.Background()).
Contexts == [now : 0..MaxTime, str : {""}]
strContexts == [now : 0..MaxTime, str : {"", "something"}]
\* clocks that also read a time after every expiry time below
LateContexts == [now : 0..(MaxTime + 1), str : {""}]

\* A checkers.Caveat returned by the IdentityClient or the Authorizer.
IdentityCaveat == [Location |-> "idm", Condition |-> "is-authenticated-user"]
ExtraCaveat == [Location |-> "authz", Condition |-> "extra"]

----------------------------------------------------------------------------
(* Errors: the concrete value returned, and what errgo.Cause gives for it.  *)

NoError ==
    [kind |-> "nil", cause |-> "nil", msg |-> "", underlying |-> "nil",
     Ops |-> <<>>, Caveats |-> <<>>]

ErrPermissionDenied ==
    [kind |-> "ErrPermissionDenied", cause |-> "ErrPermissionDenied",
     msg |-> "permission denied", underlying |-> "nil", Ops |-> <<>>,
     Caveats |-> <<>>]

DischargeRequiredError(msg, ops, caveats) ==
    [kind |-> "DischargeRequiredError", cause |-> "DischargeRequiredError",
     msg |-> msg, underlying |-> "nil", Ops |-> ops, Caveats |-> caveats]

\* errgo.Newf: a new *errgo.Err, which is its own cause.
Newf(msg) ==
    [kind |-> "errgo.Err", cause |-> "errgo.Err", msg |-> msg,
     underlying |-> "nil", Ops |-> <<>>, Caveats |-> <<>>]

\* errgo.Notef(err, msg) and errgo.Mask(err): a new *errgo.Err that wraps
\* err and hides its cause.
Notef(err, msg) ==
    [kind |-> "errgo.Err", cause |-> "errgo.Err", msg |-> msg,
     underlying |-> err.kind, Ops |-> <<>>, Caveats |-> <<>>]

\* errgo.Mask(err, isDischargeRequiredError): a wrapper that keeps the cause
\* only of a discharge-required error.
MaskDischargeRequired(err) ==
    IF err.cause = "DischargeRequiredError"
    THEN [err EXCEPT !.kind = "errgo.Err", !.underlying = err.kind]
    ELSE Notef(err, "")

----------------------------------------------------------------------------
(* Macaroons, as far as verification looks at them.  A macaroon.Slice is a  *)
(* sequence: the primary macaroon followed by its discharges.               *)

NoCond == [name |-> "", t |-> 0, s |-> ""]

\* A first-party caveat and a third-party caveat (with its caveat id).
FP(cond) == [cid |-> "", cond |-> cond]
TP(cid) == [cid |-> cid, cond |-> NoCond]

\* A macaroon minted by the store: its id holds the root key id and the ops.
PrimaryMac(ops, cavs) ==
    [idOk |-> TRUE, key |-> "k1", ops |-> ops, cid |-> "", sigOk |-> TRUE,
     caveats |-> cavs, bound |-> ""]

\* A discharge macaroon for the caveat cid, bound to the signature `bound`.
DischargeMac(cid, cavs, bound) ==
    [idOk |-> TRUE, key |-> "", ops |-> <<>>, cid |-> cid, sigOk |-> TRUE,
     caveats |-> cavs, bound |-> bound]

\* The root keys the store can still find.
StoredKeys == {"k1"}

\* Slices that MacaroonOps rejects.
EmptySlice == <<>>
TamperedSlice == <<[PrimaryMac(<<LoginOp>>, <<>>) EXCEPT !.sigOk = FALSE]>>
BadIdSlice == <<[PrimaryMac(<<ReadOp>>, <<>>) EXCEPT !.idOk = FALSE]>>
NoRootKeySlice == <<[PrimaryMac(<<ReadOp>>, <<>>) EXCEPT !.key = "gone"]>>
\* a third-party caveat with no discharge (TestMacaroonPaperFig6FailsWithoutDischarges)
UndischargedSlice == <<PrimaryMac(<<ReadOp>>, <<TP("c1")>>)>>
\* a discharge bound to another signature
\* (TestMacaroonPaperFig6FailsWithBindingOnTamperedSignature)
MisboundSlice ==
    <<PrimaryMac(<<LoginOp>>, <<TP("c1")>>),
      DischargeMac("c1", <<FP(Declared("bob"))>>, "tampered")>>

\* Slices that MacaroonOps accepts.
LoginSlice(user, conds) ==
    <<PrimaryMac(<<LoginOp>>, conds \o <<TP("c1")>>),
      DischargeMac("c1", <<FP(Declared(user))>>, "primary")>>
LoginAlice == LoginSlice("alice", <<FP(TimeBefore(1))>>)
LoginBob == LoginSlice("bob", <<>>)
LoginUndecodable == LoginSlice("undecodable", <<>>)
ReadExpiring == <<PrimaryMac(<<ReadOp>>, <<FP(TimeBefore(1))>>)>>
ReadForever == <<PrimaryMac(<<ReadOp>>, <<>>)>>
ReadLater == <<PrimaryMac(<<ReadOp>>, <<FP(TimeBefore(2))>>)>>
ReadWrite == <<PrimaryMac(<<ReadOp, WriteOp>>, <<>>)>>
\* capabilities restricted with strCaveat("something")
ReadStr == <<PrimaryMac(<<ReadOp>>, <<FP(strCaveat("something")), FP(AllowCaveat("read"))>>)>>
WriteStr == <<PrimaryMac(<<WriteOp>>, <<FP(strCaveat("something")), FP(TimeBefore(2))>>)>>

InvalidSlices ==
    {EmptySlice, TamperedSlice, BadIdSlice, NoRootKeySlice, UndischargedSlice,
     MisboundSlice}
\* the slices whose verification fails on a third-party caveat
UnverifiedSlices == {UndischargedSlice, MisboundSlice}
LoginSlices == {LoginAlice, LoginBob, LoginUndecodable}
CapabilitySlices == {ReadExpiring, ReadForever, ReadWrite}

\* Every list of at most MaxSlices slices drawn from pool.
SliceLists(pool) == UNION {[1..n -> pool] : n \in 0..MaxSlices}

Min(S) == CHOOSE x \in S : \A y \in S : x <= y

\* macaroon.Macaroon.VerifiedConditions: the signature chain must be intact,
\* every third-party caveat needs a discharge with its id, bound to the
\* primary; the result is the first-party conditions met on the way.
RECURSIVE VerifyCaveats(_, _)
VerifyCaveats(cavs, discharges) ==
    IF cavs = <<>> THEN [ok |-> TRUE, conds |-> <<>>]
    ELSE LET c == Head(cavs)
             rest == VerifyCaveats(Tail(cavs), discharges)
             found == {k \in 1..Len(discharges) : discharges[k].cid = c.cid}
             here ==
                 IF c.cid = "" THEN [ok |-> TRUE, conds |-> <<c.cond>>]
                 ELSE IF found = {} THEN [ok |-> FALSE, conds |-> <<>>]
                 ELSE LET d == discharges[Min(found)]
                      IN  IF d.bound # "primary" \/ ~d.sigOk
                          THEN [ok |-> FALSE, conds |-> <<>>]
                          ELSE VerifyCaveats(d.caveats, discharges)
         IN  [ok |-> here.ok /\ rest.ok, conds |-> here.conds \o rest.conds]

VerifiedConditions(m, discharges) ==
    IF ~m.sigOk THEN [ok |-> FALSE, conds |-> <<>>]
    ELSE VerifyCaveats(m.caveats, discharges)

\* A store that gives the operations of the id without looking at the result
\* of the verification.
MacaroonOpsUnchecked(ms) ==
    LET fail == [ops |-> <<>>, conditions |-> <<>>, err |-> TRUE]
    IN  IF Len(ms) = 0 THEN fail
        ELSE IF ~ms[1].idOk THEN fail
        ELSE IF ms[1].key \notin StoredKeys THEN fail
        ELSE [ops |-> ms[1].ops,
              conditions |-> VerifiedConditions(ms[1], Tail(ms)).conds,
              err |-> FALSE]

\* macaroonStore.MacaroonOps: (ops, conditions, err).
MacaroonOps(ms) ==
    LET fail == [ops |-> <<>>, conditions |-> <<>>, err |-> TRUE]
    IN  IF Len(ms) = 0 THEN fail
        ELSE IF ~ms[1].idOk THEN fail
        ELSE IF ms[1].key \notin StoredKeys THEN fail
        ELSE LET v == VerifiedConditions(ms[1], Tail(ms))
             IN  IF ~v.ok THEN fail
                 ELSE [ops |-> ms[1].ops, conditions |-> v.conds, err |-> FALSE]

----------------------------------------------------------------------------
(* First-party caveat checking.                                             *)

\* checkers.InferDeclaredFromConditions, for the one attribute "username":
\* the declared value, or none when no or conflicting values are declared.
InferDeclaredFromConditions(conds) ==
    LET vals == {conds[k].s : k \in {j \in 1..Len(conds) : conds[j].name = "declared"}}
    IN  IF Cardinality(vals) = 1 THEN CHOOSE v \in vals : TRUE ELSE ""

\* A check that still accepts at the expiry time itself.
checkTimeBeforeInclusive(ctxt, cond) == ctxt.now <= cond.t

\* checkTimeBefore: an error unless now is before t.
checkTimeBefore(ctxt, cond) == ctxt.now < cond.t

\* The tests' strCheck: the argument must be the string of the context.
strCheck(ctxt, cond) == cond.s = ctxt.str

\* The standard "allow" condition: the argument names the operation's action.
checkAllow(op, cond) == cond.s = op.Action

\* Checker.CheckFirstPartyCaveat under a context holding the clock, the
\* operation and the declared attributes: TRUE when the condition holds.
CheckFirstPartyCaveat(ctxt, op, declared, cond) ==
    CASE cond.name = "time-before" -> checkTimeBefore(ctxt, cond)
      [] cond.name = "declared" -> declared = cond.s
      [] cond.name = "allow" -> checkAllow(op, cond)
      [] cond.name = "str" -> strCheck(ctxt, cond)
      [] OTHER -> FALSE

\* AuthChecker.checkConditions: (declared, err).
checkConditions(ctxt, op, conds) ==
    LET declared == InferDeclaredFromConditions(conds)
        ok == \A k \in 1..Len(conds) :
                  CheckFirstPartyCaveat(ctxt, op, declared, conds[k])
    IN  [declared |-> declared, err |-> ~ok]

----------------------------------------------------------------------------
(* The IdentityClient.                                                      *)

\* IdentityClient.DeclaredIdentity: (identity, err).  A declaration the
\* client cannot decode is an error; no declaration at all is the user
\* "noone" (noIdentities) or SimpleIdentity("") (idmClient).
DeclaredIdentity(declared) ==
    IF declared = "undecodable" THEN [identity |-> NoIdentity, err |-> TRUE]
    ELSE IF declared = "" THEN [identity |-> "noone", err |-> FALSE]
    ELSE [identity |-> declared, err |-> FALSE]

\* IdentityClient.IdentityFromContext: the (identity, caveats, err) results
\* an implementation may give.
IdentityFromContextResults ==
    {[identity |-> NoIdentity, caveats |-> <<>>, err |-> FALSE],
     [identity |-> NoIdentity, caveats |-> <<IdentityCaveat>>, err |-> FALSE],
     [identity |-> "ctxuser", caveats |-> <<>>, err |-> FALSE],
     [identity |-> NoIdentity, caveats |-> <<>>, err |-> TRUE]}

----------------------------------------------------------------------------
(* The Authorizer.                                                          *)

AllFalse(n) == [k \in 1..n |-> FALSE]
AllTrue(n) == [k \in 1..n |-> TRUE]

\* NewChecker: a nil Authorizer becomes ClosedAuthorizer.
NewChecker(params) ==
    [params EXCEPT !.Authorizer = IF @ = "nil" THEN "ClosedAuthorizer" ELSE @]

\* closedAuthorizer.Authorize
ClosedAuthorize(need) ==
    [allowed |-> AllFalse(Len(need)), caveats |-> <<>>, err |-> ErrPermissionDenied]

\* openAuthorizer.Authorize
OpenAuthorize(need) ==
    [allowed |-> AllTrue(Len(need)), caveats |-> <<>>, err |-> NoError]

\* Authorizer.Authorize of an application's authorizer: any answer per op,
\* with or without extra caveats; a failed lookup; an answer of the wrong
\* length.
CustomAuthorize(need) ==
    {[allowed |-> f, caveats |-> c, err |-> NoError] :
        f \in [1..Len(need) -> BOOLEAN], c \in {<<>>, <<ExtraCaveat>>}}
    \cup {[allowed |-> <<>>, caveats |-> c, err |-> e] :
            c \in {<<>>, <<ExtraCaveat>>}, e \in {NoError, Newf("database unavailable")}}

\* The (allowed, caveats, err) results p.Authorizer.Authorize may give.
AuthorizeResults(authorizer, need) ==
    CASE authorizer = "ClosedAuthorizer" -> {ClosedAuthorize(need)}
      [] authorizer = "OpenAuthorizer" -> {OpenAuthorize(need)}
      [] OTHER -> CustomAuthorize(need)

----------------------------------------------------------------------------
(* AuthChecker.initOnceFunc.                                                *)

\* for _, op := range ops { a.authIndexes[op] = append(a.authIndexes[op], i) }
RECURSIVE AppendIndexes(_, _, _)
AppendIndexes(authIdx, ops, i) ==
    IF ops = <<>> THEN authIdx
    ELSE AppendIndexes([authIdx EXCEPT ![Head(ops)] = Append(@, i)], Tail(ops), i)

\* The end of the loop body: the slice's conditions and indexes are kept.
IndexSlice(st, i, info) ==
    [st EXCEPT !.conditions[i] = info.conditions,
               !.authIndexes = AppendIndexes(@, info.ops, i)]

\* The branch of the loop body taken when MacaroonOps fails: the log call
\* reads ms[0].Id(), then the slice is skipped.
SkipUnverified(st, ms) ==
    IF Len(ms) = 0 THEN [st EXCEPT !.panicked = TRUE] ELSE st

\* A login branch that does not look whether an identity is already there.
InitLoginSliceLastWins(st, i, info, ctxt) ==
    LET chk == checkConditions(ctxt, LoginOp, info.conditions)
        decl == DeclaredIdentity(chk.declared)
    IN  IF chk.err THEN st
        ELSE IF decl.err THEN st
        ELSE IndexSlice([st EXCEPT !.identity = decl.identity, !.identityFrom = i],
                        i, info)

\* The branch taken for an authentication macaroon (ops = [LoginOp]).
InitLoginSlice(st, i, info, ctxt) ==
    LET chk == checkConditions(ctxt, LoginOp, info.conditions)
        decl == DeclaredIdentity(chk.declared)
    IN  IF chk.err THEN st
        ELSE IF st.identity # NoIdentity THEN st
        ELSE IF decl.err THEN st
        ELSE IndexSlice([st EXCEPT !.identity = decl.identity, !.identityFrom = i],
                        i, info)

\* One iteration of the loop over a.macaroons.
InitSlice(st, ms, i, ctxt) ==
    LET info == MacaroonOps(ms)
    IN  IF info.err THEN SkipUnverified(st, ms)
        ELSE IF info.ops = <<LoginOp>> THEN InitLoginSlice(st, i, info, ctxt)
        ELSE IndexSlice(st, i, info)

\* After the loop: with no identity yet, ask the IdentityClient; r is its
\* answer.
InitIdentity(st, r) ==
    IF st.identity # NoIdentity THEN [st EXCEPT !.initError = NoError]
    ELSE IF r.err
         THEN [st EXCEPT !.initError =
                   Notef(Newf("identity lookup failed"), "could not determine identity"),
                         !.idCalls = @ + 1]
         ELSE [st EXCEPT !.identity = r.identity, !.identityCaveats = r.caveats,
                         !.identityFrom = IF r.identity = NoIdentity THEN 0 ELSE -1,
                         !.initError = NoError, !.idCalls = @ + 1]

----------------------------------------------------------------------------
(* AuthChecker.allowAny.  `a` holds the AuthChecker's fields.               *)

\* An inner loop that gives up at the first slice whose conditions fail.
FirstOrNone(a, ctxt, op, indexes) ==
    IF indexes = <<>> THEN 0
    ELSE IF ~checkConditions(ctxt, op, a.conditions[Head(indexes)]).err
         THEN Head(indexes)
         ELSE 0

\* The inner loop over a.authIndexes[op]: the first index whose conditions
\* check out under op, or 0 when there is none.
RECURSIVE FirstPassing(_, _, _, _)
FirstPassing(a, ctxt, op, indexes) ==
    IF indexes = <<>> THEN 0
    ELSE IF ~checkConditions(ctxt, op, a.conditions[Head(indexes)]).err
         THEN Head(indexes)
         ELSE FirstPassing(a, ctxt, op, Tail(indexes))

\* The body of the loop over ops, for ops[i]: the slice that authorizes it,
\* or 0.  LoginOp combined with other operations is passed over.
AuthorizedBy(a, ctxt, ops, i) ==
    IF ops[i] = LoginOp /\ Len(ops) > 1 THEN 0
    ELSE FirstPassing(a, ctxt, ops[i], a.authIndexes[ops[i]])

\* The slice marked used for the identity: 0 when there is no identity, -1
\* when the code panics ("no macaroon info found for login op").
IdentityIndex(a) ==
    IF a.identity = NoIdentity THEN 0
    ELSE IF a.authIndexes[LoginOp] = <<>> THEN -1
    ELSE a.authIndexes[LoginOp][1]

\* The indexes, in order, of the operations not yet authorized.
NeedIndex(authed) ==
    SelectSeq([i \in 1..Len(authed) |-> i], LAMBDA i : ~authed[i])

NoAnswer == [allowed |-> <<>>, caveats |-> <<>>, err |-> NoError]

\* allowAny up to the call of the Authorizer.
Sweep(a, ctxt, ops) ==
    LET by == [i \in 1..Len(ops) |-> AuthorizedBy(a, ctxt, ops, i)]
        authed == [i \in 1..Len(ops) |-> by[i] # 0]
        idx == IdentityIndex(a)
        usedSet == {by[i] : i \in 1..Len(ops)} \cup {idx}
        needIndex == NeedIndex(authed)
    IN  [by |-> by, authed |-> authed,
         used |-> [k \in 1..Len(a.conditions) |-> k \in usedSet],
         panicked |-> idx = -1,
         needIndex |-> needIndex,
         need |-> [k \in 1..Len(needIndex) |-> ops[needIndex[k]]]]

\* The result of allowAny: (authed, used, err), with what happened on the
\* way.
AllowAnyResult(authedNil, authed, usedNil, used, err, sw, called, answer, stillNeed) ==
    [panicked |-> FALSE, authedNil |-> authedNil, authed |-> authed,
     usedNil |-> usedNil, used |-> used, err |-> err, by |-> sw.by,
     called |-> called, need |-> sw.need, answer |-> answer,
     stillNeed |-> stillNeed]

\* An allowAny that goes on after a failed init as if it had authorized
\* everything.
InitFailedForgotten(a) ==
    [panicked |-> FALSE, authedNil |-> TRUE, authed |-> <<>>, usedNil |-> FALSE,
     used |-> <<>>, err |-> NoError, by |-> <<>>,
     called |-> FALSE, need |-> <<>>, answer |-> NoAnswer, stillNeed |-> <<>>]

\* allowAny when init failed.
InitFailed(a) ==
    [panicked |-> FALSE, authedNil |-> TRUE, authed |-> <<>>, usedNil |-> TRUE,
     used |-> <<>>, err |-> Notef(a.initError, ""), by |-> <<>>,
     called |-> FALSE, need |-> <<>>, answer |-> NoAnswer, stillNeed |-> <<>>]

\* allowAny when every operation was authorized by a macaroon, or when it
\* panics.
WithoutAuthorizer(sw) ==
    [AllowAnyResult(TRUE, <<>>, FALSE, sw.used, NoError, sw, FALSE, NoAnswer, <<>>)
        EXCEPT !.panicked = sw.panicked]

\* A refusal that looks at the Authorizer's caveats before the identity.
RefusalCaveatsFirst(a, ops, caveats) ==
    IF Len(caveats) = 0 THEN ErrPermissionDenied
    ELSE IF a.identity = NoIdentity /\ Len(a.identityCaveats) > 0
    THEN DischargeRequiredError("authentication required", <<LoginOp>>,
                                a.identityCaveats)
    ELSE DischargeRequiredError("some operations have extra caveats", ops, caveats)

\* The error allowAny ends with when operations or caveats remain.
Refusal(a, ops, caveats) ==
    IF a.identity = NoIdentity /\ Len(a.identityCaveats) > 0
    THEN DischargeRequiredError("authentication required", <<LoginOp>>,
                                a.identityCaveats)
    ELSE IF Len(caveats) = 0 THEN ErrPermissionDenied
    ELSE DischargeRequiredError("some operations have extra caveats", ops, caveats)

\* A test that takes the call for settled when no operation remains.
SettledWithoutCaveats(stillNeed, caveats) == Len(stillNeed) = 0

\* The test for success after the Authorizer's answer: no operation remains
\* and there are no extra caveats.
Settled(stillNeed, caveats) == Len(stillNeed) = 0 /\ Len(caveats) = 0

\* allowAny from the Authorizer's answer z on.
AfterAuthorize(a, ops, sw, z) ==
    LET n == Len(sw.need)
        authed == [i \in 1..Len(ops) |->
                      sw.authed[i]
                      \/ \E k \in 1..n : sw.needIndex[k] = i /\ z.allowed[k]]
        stillIdx == SelectSeq(sw.needIndex, LAMBDA i : ~authed[i])
        stillNeed == [k \in 1..Len(stillIdx) |-> ops[stillIdx[k]]]
    IN  IF z.err.kind # "nil"
        THEN AllowAnyResult(FALSE, sw.authed, FALSE, sw.used,
                            Notef(z.err, "cannot check permissions"), sw, TRUE, z, <<>>)
        ELSE IF Len(z.allowed) # n
        THEN AllowAnyResult(FALSE, sw.authed, FALSE, sw.used,
                            Newf("unexpected slice length returned from Allow"),
                            sw, TRUE, z, <<>>)
        ELSE IF Settled(stillNeed, z.caveats)
        THEN AllowAnyResult(FALSE, authed, FALSE, sw.used, NoError, sw, TRUE, z, stillNeed)
        ELSE AllowAnyResult(FALSE, authed, FALSE, sw.used,
                            Refusal(a, ops, z.caveats), sw, TRUE, z, stillNeed)

\* The results allowAny may give, one per answer of the Authorizer.
allowAny(a, authorizer, ctxt, ops) ==
    IF a.initError.kind # "nil" THEN {InitFailed(a)}
    ELSE LET sw == Sweep(a, ctxt, ops)
             numAuthed == Cardinality({i \in 1..Len(ops) : sw.authed[i]})
         IN  IF sw.panicked \/ numAuthed = Len(ops) THEN {WithoutAuthorizer(sw)}
             ELSE {AfterAuthorize(a, ops, sw, z) :
                      z \in AuthorizeResults(authorizer, sw.need)}

----------------------------------------------------------------------------
(* caveatSquasher.                                                          *)

\* The order of sort.Strings on the condition strings of the model.
NameRank(name) ==
    CASE name = "allow" -> 1
      [] name = "declared" -> 2
      [] name = "deny" -> 3
      [] name = "str" -> 4
      [] name = "time-before" -> 5
      [] OTHER -> 0
ArgRank(arg) ==
    CASE arg = "" -> 0
      [] arg = "alice" -> 1
      [] arg = "bob" -> 2
      [] arg = "read" -> 3
      [] arg = "something" -> 4
      [] arg = "write" -> 5
      [] OTHER -> 6
CondLess(c, d) ==
    \/ NameRank(c.name) < NameRank(d.name)
    \/ NameRank(c.name) = NameRank(d.name) /\ ArgRank(c.s) < ArgRank(d.s)
    \/ NameRank(c.name) = NameRank(d.name) /\ ArgRank(c.s) = ArgRank(d.s) /\ c.t < d.t

\* caveatSquasher.add0: TRUE when the condition is kept as it is; the
\* squasher sq is [expiry, conds], expiry 0 being the zero time.
add0Keeps(cond) ==
    CASE cond.name = "time-before" -> cond.t = 0
      [] cond.name \in {"allow", "deny", "declared"} -> FALSE
      [] OTHER -> TRUE

\* caveatSquasher.add
SquasherAdd(sq, cond) ==
    IF add0Keeps(cond) THEN [sq EXCEPT !.conds = Append(@, cond)]
    ELSE IF cond.name = "time-before" /\ (sq.expiry = 0 \/ cond.t < sq.expiry)
         THEN [sq EXCEPT !.expiry = cond.t]
         ELSE sq

RECURSIVE SquasherAddAll(_, _)
SquasherAddAll(sq, conds) ==
    IF conds = <<>> THEN sq
    ELSE SquasherAddAll(SquasherAdd(sq, Head(conds)), Tail(conds))

\* The loop of final that moves each new condition down to position j; it
\* returns the whole of c.conds.
RECURSIVE Compact(_, _, _, _)
Compact(conds, k, j, prev) ==
    IF k > Len(conds) THEN conds
    ELSE IF conds[k] # prev
         THEN Compact([conds EXCEPT ![j] = conds[k]], k + 1, j + 1, conds[k])
         ELSE Compact(conds, k + 1, j, prev)

\* caveatSquasher.final: [nil, conds].
SquasherFinal(sq) ==
    LET all == IF sq.expiry # 0 THEN Append(sq.conds, TimeBefore(sq.expiry))
               ELSE sq.conds
        sorted == SortSeq(all, CondLess)
    IN  IF Len(all) = 0 THEN [nil |-> TRUE, conds |-> <<>>]
        ELSE [nil |-> FALSE, conds |-> Compact(sorted, 2, 2, sorted[1])]

\* The conditions of the used slices, in slice order.
RECURSIVE UsedConditions(_, _, _)
UsedConditions(a, used, i) ==
    IF i > Len(used) THEN <<>>
    ELSE (IF used[i] THEN a.conditions[i] ELSE <<>>) \o UsedConditions(a, used, i + 1)

----------------------------------------------------------------------------
(* The public methods.  A return value is a record                          *)
(*   [err, authInfoNil, authInfo, authedNil, authed, condsNil, conds, trace]*)
(* of which each method sets its own results; trace is allowAny's result.   *)

NoAuthInfo == [Identity |-> NoIdentity, Macaroons |-> <<>>]

\* An AuthInfo that reports every presented slice.
newAuthInfoAll(a, macs, used) ==
    [Identity |-> a.identity, Macaroons |-> macs]

\* AuthChecker.newAuthInfo
newAuthInfo(a, macs, used) ==
    LET idx == SelectSeq([i \in 1..Len(used) |-> i], LAMBDA i : used[i])
    IN  [Identity |-> a.identity, Macaroons |-> [k \in 1..Len(idx) |-> macs[idx[k]]]]

\* AuthChecker.AllowAny, given allowAny's result r.
AllowAny(a, macs, r) ==
    [err |-> r.err, authInfoNil |-> FALSE, authInfo |-> newAuthInfo(a, macs, r.used),
     authedNil |-> r.authedNil, authed |-> r.authed,
     condsNil |-> TRUE, conds |-> <<>>, trace |-> r]

\* AuthChecker.Allow, given allowAny's result r.
Allow(a, macs, r) ==
    LET any == AllowAny(a, macs, r)
    IN  IF any.err.kind # "nil"
        THEN [any EXCEPT !.authInfoNil = TRUE, !.authInfo = NoAuthInfo,
                         !.authedNil = TRUE, !.authed = <<>>]
        ELSE [any EXCEPT !.authedNil = TRUE, !.authed = <<>>]

\* The number of operations of ops other than LoginOp.
Nops(ops) == Cardinality({i \in 1..Len(ops) : ops[i] # LoginOp})

\* AuthChecker.AllowCapability, given allowAny's result r.
AllowCapability(a, r) ==
    LET sq == SquasherFinal(SquasherAddAll([expiry |-> 0, conds |-> <<>>],
                                           UsedConditions(a, r.used, 1)))
    IN  IF r.err.kind # "nil"
        THEN [err |-> MaskDischargeRequired(r.err), authInfoNil |-> TRUE,
              authInfo |-> NoAuthInfo, authedNil |-> TRUE, authed |-> <<>>,
              condsNil |-> TRUE, conds |-> <<>>, trace |-> r]
        ELSE [err |-> NoError, authInfoNil |-> TRUE, authInfo |-> NoAuthInfo,
              authedNil |-> TRUE, authed |-> <<>>,
              condsNil |-> sq.nil, conds |-> sq.conds, trace |-> r]

\* The value of a method that returned result r.
MethodResult(method, a, macs, r) ==
    CASE method = "Allow" -> Allow(a, macs, r)
      [] method = "AllowAny" -> AllowAny(a, macs, r)
      [] OTHER -> AllowCapability(a, r)

----------------------------------------------------------------------------
(* httpbakery: protocol versions, error values and error responses.         *)

\* the longest Bakery-Protocol-Version header value
MaxHeaderLen == 2
MaxDischargers == 2
MaxCloses == 2
MaxRequests == 4

\* bakery.LatestVersion, the last of bakery.Version0 .. bakery.Version3.
LatestVersion == 3

\* The header values: "" when the header is absent, else a string.
HeaderChars == {"-", "0", "2", "4", "x"}
Headers == UNION {[1..n -> HeaderChars] : n \in 0..MaxHeaderLen}

DigitValue(ch) ==
    CASE ch = "0" -> 0
      [] ch = "2" -> 2
      [] ch = "4" -> 4
      [] OTHER -> -1

\* The value of a string of decimal digits; -1 when it holds anything else.
RECURSIVE DigitsValue(_, _)
DigitsValue(s, acc) ==
    IF s = <<>> THEN acc
    ELSE IF DigitValue(Head(s)) < 0 THEN -1
         ELSE DigitsValue(Tail(s), 10 * acc + DigitValue(Head(s)))

\* strconv.Atoi: (x, err) for an optional sign followed by decimal digits.
Atoi(s) ==
    LET neg == s # <<>> /\ Head(s) = "-"
        digits == IF neg THEN Tail(s) ELSE s
        x == DigitsValue(digits, 0)
    IN  IF digits = <<>> \/ x < 0 THEN [x |-> 0, err |-> TRUE]
        ELSE [x |-> IF neg THEN 0 - x ELSE x, err |-> FALSE]

\* A version taken from the header as it stands.
RequestVersionUnclamped(vs) ==
    IF vs = <<>> \/ Atoi(vs).err \/ Atoi(vs).x < 0 THEN 0 ELSE Atoi(vs).x

\* RequestVersion, for a request whose header value is vs.
RequestVersion(vs) ==
    IF vs = <<>> THEN 0
    ELSE IF Atoi(vs).err \/ Atoi(vs).x < 0 THEN 0
    ELSE IF Atoi(vs).x > LatestVersion THEN LatestVersion
    ELSE Atoi(vs).x

\* The ErrorCode values; NoCode is the empty code.
NoCode == ""
ErrBadRequest == "bad request"
ErrDischargeRequired == "macaroon discharge required"
ErrInteractionRequired == "interaction required"
ErrInteractionMethodNotFound ==
    "discharger does not provide an supported interaction method"

\* The interaction kinds, and the JSON of the parameters of each:
\* visitWaitParams for a browser window, interactionParams for an agent.
BrowserWindowInteractionKind == "browser-window"
AgentInteractionKind == "agent"
Kinds == {BrowserWindowInteractionKind, AgentInteractionKind}
NoData == "none"
ParamsOf(kind) ==
    IF kind = BrowserWindowInteractionKind THEN "visitWaitParams"
    ELSE "interactionParams"

\* An *ErrorInfo: nil, or its fields.  InteractionMethods is nil or maps
\* some kinds to data.
NilInfo ==
    [nil |-> TRUE, Macaroon |-> FALSE, methodsNil |-> TRUE,
     InteractionMethods |-> [k \in Kinds |-> NoData], VisitURL |-> "", WaitURL |-> ""]
NewInfo == [NilInfo EXCEPT !.nil = FALSE]

\* An Error value.
HttpError(code, msg, info, v) ==
    [Code |-> code, Message |-> msg, Info |-> info, version |-> v]

\* NewDischargeRequiredErrorWithVersion
NewDischargeRequiredErrorWithVersion(v) ==
    HttpError(ErrDischargeRequired, ErrDischargeRequired,
              [NewInfo EXCEPT !.Macaroon = TRUE], v)

\* NewDischargeRequiredError
NewDischargeRequiredError == NewDischargeRequiredErrorWithVersion(0)

\* NewDischargeRequiredErrorForRequest
NewDischargeRequiredErrorForRequest(vs) ==
    NewDischargeRequiredErrorWithVersion(RequestVersion(vs))

\* NewInteractionRequiredError
NewInteractionRequiredError(vs) ==
    HttpError(ErrInteractionRequired, ErrInteractionRequired, NilInfo,
              RequestVersion(vs))

\* Error.SetInteraction(kind, x), x marshalling to data.
SetInteraction(e, kind, data) ==
    [e EXCEPT !.Info = [(IF e.Info.nil THEN NewInfo ELSE e.Info) EXCEPT
                            !.methodsNil = FALSE,
                            !.InteractionMethods[kind] = data]]

\* WebBrowserInteractor.SetInteraction
WebBrowserSetInteraction(e, visitURL, waitURL) ==
    [SetInteraction(e, BrowserWindowInteractionKind, "visitWaitParams") EXCEPT
        !.Info.VisitURL = visitURL, !.Info.WaitURL = waitURL]

\* json.Unmarshal(data, x) for x the parameters of kind: an error unless
\* data is a JSON object; the fields of x are filled when data has them.
Unmarshal(data, kind) ==
    [err |-> data = "scalar", filled |-> data = ParamsOf(kind)]

\* The result of InteractionMethod: the error, its cause, the data decoded
\* and whether the parameters were filled from it.
MethodOutcome(err, cause, data, filled) ==
    [err |-> err, cause |-> cause, data |-> data, filled |-> filled]

\* What the client's interactor of some kind was given: nothing yet.
NoOutcome == [kind |-> "", err |-> "nil", cause |-> "nil", data |-> NoData,
              filled |-> FALSE]

\* Error.InteractionMethod(kind, x)
InteractionMethod(e, kind) ==
    IF e.Info.nil \/ e.Code # ErrInteractionRequired
    THEN MethodOutcome("not an interaction-required error", "errgo.Err", NoData, FALSE)
    ELSE LET legacy == e.Info.methodsNil /\ e.Info.VisitURL # ""
             m == IF e.Info.methodsNil THEN NoData
                  ELSE e.Info.InteractionMethods[kind]
             data == IF legacy THEN "visitWaitParams" ELSE m
         IN  IF ~legacy /\ m = NoData
             THEN MethodOutcome("interaction method not found",
                                ErrInteractionMethodNotFound, NoData, FALSE)
             ELSE IF Unmarshal(data, kind).err
             THEN MethodOutcome("cannot unmarshal data for interaction method",
                                "errgo.Err", data, FALSE)
             ELSE MethodOutcome("nil", "nil", data, Unmarshal(data, kind).filled)

\* An error handed to ErrorToResponse: its message and its errgo.Cause,
\* which is an *Error, a bare ErrorCode or some other error.
Caused(msg, causeType, e) == [msg |-> msg, causeType |-> causeType, cause |-> e]
NoHttpError == Caused("", "nil", HttpError(NoCode, "", NilInfo, 0))

\* badRequestErrorf
badRequestErrorf(msg) ==
    Caused(msg, "ErrorCode", HttpError(ErrBadRequest, "", NilInfo, 0))

\* errorResponseBody
errorResponseBody(err) ==
    IF err.causeType = "*Error" THEN [err.cause EXCEPT !.Message = err.msg]
    ELSE IF err.causeType = "ErrorCode"
    THEN HttpError(err.cause.Code, err.msg, NilInfo, 0)
    ELSE HttpError(NoCode, err.msg, NilInfo, 0)

\* The response: the status, the WWW-Authenticate header and the body.
Response(status, authenticate, body) ==
    [panicked |-> FALSE, status |-> status, authenticate |-> authenticate,
     body |-> body]
NoResponse == Response(0, "", HttpError(NoCode, "", NilInfo, 0))

\* A response that does not look at the version of the error.
ErrorToResponseVersion0(err) ==
    LET errorBody == errorResponseBody(err)
    IN  CASE errorBody.Code = ErrBadRequest -> Response(400, "", errorBody)
          [] errorBody.Code \in {ErrDischargeRequired, ErrInteractionRequired} ->
                Response(407, "", errorBody)
          [] OTHER -> Response(500, "", errorBody)

\* ErrorToResponse
ErrorToResponse(err) ==
    LET errorBody == errorResponseBody(err)
    IN  CASE errorBody.Code = ErrBadRequest -> Response(400, "", errorBody)
          [] errorBody.Code \in {ErrDischargeRequired, ErrInteractionRequired} ->
                CASE errorBody.version = 0 -> Response(407, "", errorBody)
                  [] errorBody.version \in {1, 2, 3} ->
                        Response(401, "Macaroon", errorBody)
                  [] OTHER -> [NoResponse EXCEPT !.panicked = TRUE]
          [] OTHER -> Response(500, "", errorBody)

----------------------------------------------------------------------------
(* The state.                                                               *)

VARIABLES
    params,          \* the CheckerParams given to NewChecker
    macaroons,       \* AuthChecker.macaroons, as given to Checker.Auth
    requests,        \* the calls the callers may make: [method, ops, ctxt]
    budget,          \* budget[c]: the number of calls caller c may still make
    conditions,      \* AuthChecker.conditions
    initOnce,        \* AuthChecker.initOnce: [done, m], m the mutex's holder
    initError,       \* AuthChecker.initError
    identity,        \* AuthChecker.identity
    identityCaveats, \* AuthChecker.identityCaveats
    authIndexes,     \* AuthChecker.authIndexes
    i,               \* the loop variable of initOnceFunc
    pc,              \* pc[c]: where caller c is
    req,             \* req[c]: the call caller c is making
    ret,             \* ret[c]: what the call of caller c returned
    identityFrom,    \* the slice the identity was taken from (-1: the context)
    idCalls,         \* the number of IdentityFromContext calls made
    initRuns,        \* the number of times initOnceFunc was entered
    initCtxt,        \* the context initOnceFunc was run with
    seen,            \* seen[c]: the fields caller c last decided on
    header,          \* the Bakery-Protocol-Version header of the HTTP request
    werr,            \* the error the HTTP handler failed with
    how,             \* the function that made that error
    response,        \* the error response written
    outcome,         \* what InteractionMethod gave the client's interactor
    wpc,             \* the step the HTTP exchange has reached
    variant,         \* the file of package bakerytest that is compiled
    setup,           \* [Checker, interactors, checker]: the discharger as the test set it up
    maxId,           \* Discharger.id / Discharger.maxId
    discharges,      \* the ids of Discharger.discharges (part_000)
    waiting,         \* Discharger.waiting (bakerytest.go) / VisitWaitHandler.waiting (part_000)
    mu,              \* the holder of Discharger.mu
    imu,             \* the holder of VisitWaitHandler.mu (part_000)
    hpc,             \* hpc[h]: where the HTTP handler goroutine h is
    hreq,            \* hreq[h]: the request h serves: [op, id, res]
    hres,            \* hres[h]: the dischargeResult h received in Wait
    hret,            \* hret[h]: what the last request of h returned
    quota,           \* the number of requests the clients may still send
    events,          \* what has happened: macaroons issued, outcomes accepted, timeouts, table accesses
    crashed,         \* the runtime has stopped the process (fatal error)
    refCount,        \* skipVerify.refCount
    oldSkipVerify,   \* skipVerify.oldSkipVerify
    skipMu,          \* the holder of skipVerify.mu
    tlsConfig,       \* http.DefaultTransport's TLSClientConfig: [set, InsecureSkipVerify]
    server,          \* server[d]: Discharger.server of discharger d
    dpc,             \* dpc[d]: where the goroutine that owns discharger d is
    closes,          \* closes[d]: the Close calls the owner of d may still make
    original,        \* the flag before the first discharger was created
    opsArg,          \* the op lists newMultiOpEntity is called with
    entityRet,       \* what the calls of newMultiOpEntity returned
    store,           \* Service.store: the macaroon ids that have a storage item
    minted,          \* the macaroons the Service has handed out
    reqMacaroons,    \* Request.macaroons
    inStorage,       \* Request.inStorage: the macaroons of the request with a storage item
    checkRet,        \* the last Request.Check: the macaroons checked and the error
    aclCall,         \* the ACLAuthorizer, and the arguments Authorize is called with
    aclRet,          \* what ACLAuthorizer.Authorize returned
    irErr,           \* the interaction-required error given to WebBrowserInteractor.Interact
    bpc,             \* where the goroutine in Interact is
    opened,          \* the URLs OpenWebBrowser was called with
    polled,          \* the URLs waitForMacaroon was called with
    bret             \* what Interact returned

config == <<params, macaroons, requests>>
checker == <<conditions, initOnce, initError, identity, identityCaveats, authIndexes, i>>
callers == <<budget, pc, req, ret>>
history == <<identityFrom, idCalls, initRuns, initCtxt, seen>>
auth == <<config, checker, callers, history>>
web == <<header, werr, how, response, outcome, wpc>>
table == <<maxId, discharges, waiting, mu, imu>>
handlers == <<hpc, hreq, hres, hret>>
flow == <<variant, setup, table, handlers, quota, events, crashed>>
tls == <<refCount, oldSkipVerify, skipMu, tlsConfig, server, dpc, closes, original>>
bakerytest == <<flow, tls>>
oven == <<opsArg, entityRet>>
service == <<store, minted, reqMacaroons, inStorage, checkRet>>
acl == <<aclCall, aclRet>>
browser == <<irErr, bpc, opened, polled, bret>>
units == <<oven, service, acl, browser>>
vars == <<auth, web, bakerytest, units>>

Callers == {"c1", "c2"}
Methods == {"Allow", "AllowAny", "AllowCapability"}

\* The checker's parameters after NewChecker.
p == NewChecker(params)

\* The AuthChecker's fields as a record.
A ==
    [conditions |-> conditions, initError |-> initError, identity |-> identity,
     identityCaveats |-> identityCaveats, authIndexes |-> authIndexes,
     identityFrom |-> identityFrom, idCalls |-> idCalls, panicked |-> FALSE]

NoRequest == [method |-> "", ops |-> <<>>, ctxt |-> [now |-> 0, str |-> ""]]

NoTrace ==
    [panicked |-> FALSE, authedNil |-> TRUE, authed |-> <<>>, usedNil |-> TRUE,
     used |-> <<>>, err |-> NoError, by |-> <<>>, called |-> FALSE,
     need |-> <<>>, answer |-> NoAnswer, stillNeed |-> <<>>]

NoValue ==
    [err |-> NoError, authInfoNil |-> TRUE, authInfo |-> NoAuthInfo,
     authedNil |-> TRUE, authed |-> <<>>, condsNil |-> TRUE, conds |-> <<>>,
     trace |-> NoTrace]

NoRet == [state |-> "none", val |-> NoValue]

NotSeen == [decided |-> FALSE, initError |-> NoError, identity |-> NoIdentity,
            authIndexes |-> [op \in Ops |-> <<>>]]

\* The state after Checker.Auth(mss...): nothing is initialized.
InitAuth(slicePool, authorizers, reqs, cs) ==
    /\ params \in [Authorizer : authorizers]
    /\ macaroons \in SliceLists(slicePool)
    /\ requests = reqs
    /\ budget = [c \in Callers |-> IF c \in DOMAIN cs THEN cs[c] ELSE 0]
    /\ conditions = <<>>
    /\ initOnce = [done |-> FALSE, m |-> ""]
    /\ initError = NoError
    /\ identity = NoIdentity
    /\ identityCaveats = <<>>
    /\ authIndexes = [op \in Ops |-> <<>>]
    /\ i = 0
    /\ pc = [c \in Callers |-> "idle"]
    /\ req = [c \in Callers |-> NoRequest]
    /\ ret = [c \in Callers |-> NoRet]
    /\ identityFrom = 0
    /\ idCalls = 0
    /\ initRuns = 0
    /\ initCtxt = [now |-> 0, str |-> ""]
    /\ seen = [c \in Callers |-> NotSeen]

\* No HTTP exchange takes place.
NoWeb ==
    /\ header = <<>>
    /\ werr = NoHttpError
    /\ how = ""
    /\ response = NoResponse
    /\ outcome = NoOutcome
    /\ wpc = "off"

\* An AuthChecker on its own.
\* The test discharger of package bakerytest is not running.
Handlers == {"h1", "h2"}
Dischargers == 1..MaxDischargers
NoReturn == [kind |-> "none", caveats |-> <<>>, msg |-> ""]
NoHandlerRequest == [op |-> "", id |-> 0, res |-> [caveats |-> <<>>, err |-> "nil"]]
NoEvents ==
    [issued |-> <<>>, accepted |-> <<>>, timedOut |-> {}, late |-> {},
     settled |-> {}, accesses |-> {}, across |-> {}]

NoFlow ==
    /\ variant = ""
    /\ setup = [Checker |-> "nil", interactors |-> FALSE, checker |-> "nil"]
    /\ maxId = 0
    /\ discharges = {}
    /\ waiting = <<>>
    /\ mu = ""
    /\ imu = ""
    /\ hpc = [h \in Handlers |-> "off"]
    /\ hreq = [h \in Handlers |-> NoHandlerRequest]
    /\ hres = [h \in Handlers |-> NoHandlerRequest.res]
    /\ hret = [h \in Handlers |-> NoReturn]
    /\ quota = 0
    /\ events = NoEvents
    /\ crashed = FALSE

NoTls ==
    /\ refCount = 0
    /\ oldSkipVerify = FALSE
    /\ skipMu = 0
    /\ tlsConfig = [set |-> FALSE, InsecureSkipVerify |-> FALSE]
    /\ server = [d \in Dischargers |-> "nil"]
    /\ dpc = [d \in Dischargers |-> "off"]
    /\ closes = [d \in Dischargers |-> 0]
    /\ original = FALSE

\* No function of the library has been called.
NoOven ==
    /\ opsArg = <<>>
    /\ entityRet = <<>>

\* No Service is at work.
NoService ==
    /\ store = {}
    /\ minted = {}
    /\ reqMacaroons = <<>>
    /\ inStorage = {}
    /\ checkRet = [macaroons |-> <<>>, err |-> ""]

\* ACLAuthorizer.Authorize has not been called.
NoAcl ==
    /\ aclCall = [called |-> FALSE]
    /\ aclRet = [returned |-> FALSE]

\* No WebBrowserInteractor is at work.
NoBrowser ==
    /\ irErr = NoHttpError
    /\ bpc = ""
    /\ opened = <<>>
    /\ polled = <<>>
    /\ bret = ""

NoUnits == NoOven /\ NoService /\ NoAcl /\ NoBrowser

InitWith(slicePool, authorizers, reqs, cs) ==
    InitAuth(slicePool, authorizers, reqs, cs) /\ NoWeb /\ NoFlow /\ NoTls /\ NoUnits

----------------------------------------------------------------------------
(* The steps.                                                               *)

\* A latch that lets a caller through as soon as initialization has started.
OnceFastPathStarted(once) == once.done \/ once.m # ""

\* sync.Once.Do's fast path: the function has already run.
OnceFastPath(once) == once.done

\* Caller c calls Allow, AllowAny or AllowCapability.  AllowCapability
\* without a non-login operation returns at once.
Call(c) ==
    /\ pc[c] = "idle"
    /\ budget[c] > 0
    /\ \E r \in requests :
        /\ req' = [req EXCEPT ![c] = r]
        /\ IF r.method = "AllowCapability" /\ Nops(r.ops) = 0
           THEN /\ pc' = [pc EXCEPT ![c] = "ret"]
                /\ ret' = [ret EXCEPT ![c] =
                       [state |-> "returned",
                        val |-> [NoValue EXCEPT !.err =
                            Newf("no non-login operations required in capability")]]]
           ELSE /\ pc' = [pc EXCEPT ![c] = "once"]
                /\ ret' = [ret EXCEPT ![c] = NoRet]
    /\ budget' = [budget EXCEPT ![c] = @ - 1]
    /\ UNCHANGED <<web, bakerytest, units, config, checker, history>>

\* a.init: a.initOnce.Do, the check of the done flag.
OnceDo(c) ==
    /\ pc[c] = "once"
    /\ pc' = [pc EXCEPT ![c] = IF OnceFastPath(initOnce) THEN "decide" ELSE "lock"]
    /\ UNCHANGED <<web, bakerytest, units, config, checker, budget, req, ret, history>>

\* A slow path that runs the function whether or not it has run.
doSlowAlways(once) == TRUE

\* sync.Once.doSlow: with the mutex held, the function runs unless it has
\* run.
doSlowRuns(once) == ~once.done

\* a.initOnce.Do, the slow path: with the mutex held, run initOnceFunc
\* unless it has run; initOnceFunc starts with fresh maps.
OnceLock(c) ==
    /\ pc[c] = "lock"
    /\ initOnce.m = ""
    /\ IF ~doSlowRuns(initOnce)
       THEN /\ pc' = [pc EXCEPT ![c] = "decide"]
            /\ UNCHANGED <<checker, initRuns, initCtxt>>
       ELSE /\ pc' = [pc EXCEPT ![c] = "init"]
            /\ initOnce' = [initOnce EXCEPT !.m = c]
            /\ authIndexes' = [op \in Ops |-> <<>>]
            /\ conditions' = [k \in 1..Len(macaroons) |-> <<>>]
            /\ i' = 1
            /\ initRuns' = initRuns + 1
            /\ initCtxt' = req[c].ctxt
            /\ UNCHANGED <<initError, identity, identityCaveats>>
    /\ UNCHANGED <<web, bakerytest, units, config, budget, req, ret, identityFrom, idCalls, seen>>

\* One iteration of initOnceFunc's loop.  A panic unwinds through Do, which
\* marks the Once done and releases the mutex.
InitLoop(c) ==
    /\ pc[c] = "init"
    /\ i <= Len(macaroons)
    /\ LET st == InitSlice(A, macaroons[i], i, req[c].ctxt)
       IN  /\ identity' = st.identity
           /\ identityFrom' = st.identityFrom
           /\ conditions' = st.conditions
           /\ authIndexes' = st.authIndexes
           /\ IF st.panicked
              THEN /\ pc' = [pc EXCEPT ![c] = "panicked"]
                   /\ ret' = [ret EXCEPT ![c] = [state |-> "panicked", val |-> NoValue]]
                   /\ initOnce' = [done |-> TRUE, m |-> ""]
                   /\ i' = i
              ELSE /\ i' = i + 1
                   /\ UNCHANGED <<pc, ret, initOnce>>
    /\ UNCHANGED <<web, bakerytest, units, config, budget, req, initError, identityCaveats, idCalls,
                   initRuns, initCtxt, seen>>

\* The end of initOnceFunc; Do marks the Once done and releases the mutex.
InitEnd(c) ==
    /\ pc[c] = "init"
    /\ i > Len(macaroons)
    /\ \E r \in IdentityFromContextResults :
        LET st == InitIdentity(A, r)
        IN  /\ identity' = st.identity
            /\ identityCaveats' = st.identityCaveats
            /\ identityFrom' = st.identityFrom
            /\ initError' = st.initError
            /\ idCalls' = st.idCalls
    /\ initOnce' = [done |-> TRUE, m |-> ""]
    /\ pc' = [pc EXCEPT ![c] = "decide"]
    /\ UNCHANGED <<web, bakerytest, units, config, budget, req, ret, conditions, authIndexes, i,
                   initRuns, initCtxt, seen>>

\* The rest of allowAny and of the method that called it.
Decide(c) ==
    /\ pc[c] = "decide"
    /\ \E r \in allowAny(A, p.Authorizer, req[c].ctxt, req[c].ops) :
        IF r.panicked
        THEN /\ pc' = [pc EXCEPT ![c] = "panicked"]
             /\ ret' = [ret EXCEPT ![c] =
                    [state |-> "panicked", val |-> [NoValue EXCEPT !.trace = r]]]
        ELSE /\ pc' = [pc EXCEPT ![c] = "ret"]
             /\ ret' = [ret EXCEPT ![c] =
                    [state |-> "returned",
                     val |-> MethodResult(req[c].method, A, macaroons, r)]]
    /\ seen' = [seen EXCEPT ![c] =
           [decided |-> TRUE, initError |-> initError, identity |-> identity,
            authIndexes |-> authIndexes]]
    /\ UNCHANGED <<web, bakerytest, units, config, checker, budget, req, identityFrom, idCalls, initRuns,
                   initCtxt>>

\* The caller takes the result.
Return(c) ==
    /\ pc[c] = "ret"
    /\ pc' = [pc EXCEPT ![c] = "idle"]
    /\ ret' = [ret EXCEPT ![c] = NoRet]
    /\ UNCHANGED <<web, bakerytest, units, config, checker, budget, req, history>>

\* The caller recovers from the panic of its call (as net/http does for a
\* handler) and goes on.
Recover(c) ==
    /\ pc[c] = "panicked"
    /\ pc' = [pc EXCEPT ![c] = "idle"]
    /\ ret' = [ret EXCEPT ![c] = NoRet]
    /\ UNCHANGED <<web, bakerytest, units, config, checker, budget, req, history>>

----------------------------------------------------------------------------
(* The steps of an HTTP exchange that ends in an error.                     *)

\* The versions given to NewDischargeRequiredErrorWithVersion.
ExplicitVersions == -1..(LatestVersion + 1)

\* A request arrives with some Bakery-Protocol-Version header, or none.
Receive ==
    /\ wpc = "idle"
    /\ \E vs \in Headers : header' = vs
    /\ wpc' = "handle"
    /\ UNCHANGED <<werr, how, response, outcome, auth, bakerytest, units>>

\* The handler fails with a discharge-required error.
FailDischarge ==
    /\ wpc = "handle"
    /\ \/ /\ how' = "NewDischargeRequiredError"
          /\ werr' = Caused(ErrDischargeRequired, "*Error", NewDischargeRequiredError)
       \/ /\ how' = "NewDischargeRequiredErrorForRequest"
          /\ werr' = Caused(ErrDischargeRequired, "*Error",
                            NewDischargeRequiredErrorForRequest(header))
       \/ /\ how' = "NewDischargeRequiredErrorWithVersion"
          /\ \E v \in ExplicitVersions :
                werr' = Caused(ErrDischargeRequired, "*Error",
                               NewDischargeRequiredErrorWithVersion(v))
    /\ wpc' = "error"
    /\ UNCHANGED <<header, response, outcome, auth, bakerytest, units>>

\* The discharger's checker asks for an interaction.
FailInteraction ==
    /\ wpc = "handle"
    /\ how' = "NewInteractionRequiredError"
    /\ werr' = Caused(ErrInteractionRequired, "*Error", NewInteractionRequiredError(header))
    /\ wpc' = "error"
    /\ UNCHANGED <<header, response, outcome, auth, bakerytest, units>>

\* An interactor of the discharger adds its parameters to the error; x may
\* be any value that marshals.
Interactor ==
    /\ wpc = "error"
    /\ how = "NewInteractionRequiredError"
    /\ \/ werr' = [werr EXCEPT !.cause = WebBrowserSetInteraction(@, "/visit", "/wait")]
       \/ werr' = [werr EXCEPT !.cause =
                       SetInteraction(@, AgentInteractionKind, "interactionParams")]
       \/ werr' = [werr EXCEPT !.cause = SetInteraction(@, AgentInteractionKind, "scalar")]
    /\ UNCHANGED <<header, how, response, outcome, wpc, auth, bakerytest, units>>

\* The handler fails with another error: a bad request, an error that is
\* no *Error, an *Error with another code, or a discharge-required error
\* whose cause a wrapper has masked.
FailOther ==
    /\ wpc = "handle"
    /\ how' = "other"
    /\ werr' \in {badRequestErrorf("bad request: no id"),
                  Caused("EOF", "error", HttpError(NoCode, "", NilInfo, 0)),
                  Caused("not found", "*Error",
                         HttpError(ErrInteractionMethodNotFound, "not found", NilInfo, 0)),
                  Caused("cannot do it", "error", NewDischargeRequiredErrorForRequest(header))}
    /\ wpc' = "error"
    /\ UNCHANGED <<header, response, outcome, auth, bakerytest, units>>

\* The error is written with ErrorToResponse, which may panic.
Respond ==
    /\ wpc = "error"
    /\ response' = ErrorToResponse(werr)
    /\ wpc' = IF ErrorToResponse(werr).panicked THEN "panicked" ELSE "responded"
    /\ UNCHANGED <<header, werr, how, outcome, auth, bakerytest, units>>

\* A discharger that predates InteractionMethods answers with the visit
\* and wait URLs only.
LegacyDischarger ==
    /\ wpc = "handle"
    /\ how' = "legacy"
    /\ response' = Response(407, "",
           HttpError(ErrInteractionRequired, ErrInteractionRequired,
                     [NewInfo EXCEPT !.VisitURL = "/visit", !.WaitURL = "/wait"], 0))
    /\ wpc' = "responded"
    /\ UNCHANGED <<header, werr, outcome, auth, bakerytest, units>>

\* An interactor of the client, of the given kind, looks for its
\* parameters in the error of the response.
Interact(kind) ==
    /\ wpc = "responded"
    /\ LET o == InteractionMethod(response.body, kind)
       IN  outcome' = [kind |-> kind, err |-> o.err, cause |-> o.cause,
                       data |-> o.data, filled |-> o.filled]
    /\ wpc' = "interacted"
    /\ UNCHANGED <<header, werr, how, response, auth, bakerytest, units>>

NextHttp ==
    \/ Receive
    \/ FailDischarge
    \/ FailInteraction
    \/ Interactor
    \/ FailOther
    \/ Respond
    \/ LegacyDischarger
    \/ \E kind \in Kinds : Interact(kind)

----------------------------------------------------------------------------
Next ==
    \E c \in Callers :
        \/ Call(c)
        \/ OnceDo(c)
        \/ OnceLock(c)
        \/ InitLoop(c)
        \/ InitEnd(c)
        \/ Decide(c)
        \/ Return(c)
        \/ Recover(c)

----------------------------------------------------------------------------
(* Specifications.                                                          *)

\* The calls of the given methods, with any operations and any clock.
RequestsOf(methods, opLists) == [method : methods, ops : opLists, ctxt : Contexts]

\* Decisions: one caller makes one call, with any operations, on macaroons
\* that verify; the Authorizer is ClosedAuthorizer or the application's.
Init ==
    InitWith({LoginAlice, ReadExpiring, ReadWrite},
             {"nil", "custom"}, RequestsOf({"Allow", "AllowAny"}, OpLists),
             [c \in {"c1"} |-> 1])

Spec == Init /\ [][Next]_vars

\* Initialization: one caller makes several calls on any macaroons.
InitInit ==
    InitWith(InvalidSlices \cup LoginSlices \cup {ReadForever},
             {"nil", "OpenAuthorizer"},
             RequestsOf({"Allow"}, {<<LoginOp>>, <<ReadOp>>}),
             [c \in {"c1"} |-> MaxCalls])

SpecInit == InitInit /\ [][Next]_vars

\* The one-shot latch: two callers call concurrently.
InitOnce ==
    InitWith({EmptySlice, LoginAlice}, {"nil"},
             RequestsOf({"Allow"}, {<<LoginOp>>})
                 \cup RequestsOf({"AllowAny", "AllowCapability"}, {<<ReadOp>>}),
             [c \in Callers |-> MaxCalls])

SpecOnce == InitOnce /\ [][Next]_vars

\* The calls of the given methods under the given contexts.
RequestsIn(methods, opLists, ctxts) == [method : methods, ops : opLists, ctxt : ctxts]

\* Capabilities: one caller asks once for the conditions of a capability.
CapabilityOps == {<<ReadOp>>, <<ReadOp, WriteOp>>, <<LoginOp, ReadOp>>, <<LoginOp>>}
InitCap ==
    InitWith({EmptySlice, LoginAlice, ReadExpiring, ReadStr, WriteStr}, {"nil"},
             RequestsIn({"AllowCapability"}, CapabilityOps, strContexts),
             [c \in {"c1"} |-> 1])

SpecCap == InitCap /\ [][Next]_vars

\* Expiry: one caller makes several calls under clocks before, at and after
\* the expiry times of the macaroons.
InitTime ==
    InitWith({EmptySlice, LoginAlice, ReadExpiring, ReadLater}, {"nil"},
             RequestsIn({"Allow"}, {<<LoginOp>>, <<ReadOp>>}, LateContexts),
             [c \in {"c1"} |-> MaxCalls])

SpecTime == InitTime /\ [][Next]_vars

\* Error responses: a server handles one request that fails; no
\* AuthChecker is at work.
InitHttp ==
    /\ InitAuth({}, {"nil"}, {}, <<>>)
    /\ header = <<>>
    /\ werr = NoHttpError
    /\ how = ""
    /\ response = NoResponse
    /\ outcome = NoOutcome
    /\ wpc = "idle"
    /\ NoFlow
    /\ NoTls
    /\ NoUnits

SpecHttp == InitHttp /\ [][NextHttp]_vars

----------------------------------------------------------------------------
(* The test discharger of package bakerytest.  The package is in the        *)
(* sources twice: bakerytest.go hands the outcome of an interaction to the  *)
(* waiter on a buffered channel kept in Discharger.waiting, part_000 keeps  *)
(* a future per id in VisitWaitHandler.waiting beside Discharger.discharges.*)
(* HTTP handlers run as goroutines; a handler takes one step at a time and  *)
(* the steps are cut at the lock operations and the channel operations.     *)

Variants == {"bakerytest.go", "part_000"}
Ids == 0..(MaxRequests - 1)

\* A dischargeResult, the arguments of FinishInteraction, a checker's answer.
Result(cavs, err) == [caveats |-> cavs, err |-> err]
\* FinishInteraction(id, {condition2}, nil), the Visit handler's
\* FinishInteraction(id, nil, nil), and a failed interaction.
FinishArgs ==
    {Result(<<"condition2">>, "nil"), Result(<<>>, "nil"),
     Result(<<>>, "interaction failed")}

\* The checkers a test gives to the discharger: none, one that adds
\* condition1, one that refuses.
ThirdPartyChecker(c) ==
    CASE c = "nil" -> Result(<<>>, "nil")
      [] c = "caveats" -> Result(<<"condition1">>, "nil")
      [] OTHER -> Result(<<>>, "test error")

\* bakery.Discharge mints the discharge macaroon with the caveats the
\* checker of its parameters returns, or fails with the checker's error.
Discharge(chk) ==
    IF chk.err # "nil" THEN [kind |-> "error", caveats |-> <<>>, msg |-> chk.err]
    ELSE [kind |-> "macaroon", caveats |-> chk.caveats, msg |-> ""]

\* Macaroon.AddCaveats appends the caveats.
AddCaveats(m, cavs) == [m EXCEPT !.caveats = @ \o cavs]

Errorf(msg) == [kind |-> "error", caveats |-> <<>>, msg |-> msg]
Panic(msg) == [kind |-> "panic", caveats |-> <<>>, msg |-> msg]
NilError == [kind |-> "nil", caveats |-> <<>>, msg |-> ""]
InteractionRequiredReturn(msg) ==
    [kind |-> "interaction-required", caveats |-> <<>>, msg |-> msg]

Put(f, k, v) == [x \in DOMAIN f \cup {k} |-> IF x = k THEN v ELSE f[x]]

\* A new entry of the table the waiters look in.
NewDischarge ==
    IF variant = "bakerytest.go" THEN [c |-> <<>>]
    ELSE [done |-> FALSE, caveats |-> <<>>, err |-> "nil"]

\* The outcome of the id can be received.
Available(id) ==
    IF variant = "bakerytest.go" THEN waiting[id].c # <<>> ELSE waiting[id].done

Access(op, tbl, lock) == [op |-> op, table |-> tbl, lock |-> lock]

\* The table that holds the caveat information of an id: d.waiting in
\* bakerytest.go, d.discharges in part_000.
InfoTable == IF variant = "bakerytest.go" THEN "waiting" ELSE "discharges"

\* The handler h returns r.
Returns(h, r) ==
    /\ hpc' = [hpc EXCEPT ![h] = "idle"]
    /\ hret' = [hret EXCEPT ![h] = r]

\* The handler goroutines are alike: a request goes to the first idle one.
CanServe(h) ==
    /\ quota > 0
    /\ \A g \in Handlers : hpc[g] = "idle" => h = "h1" \/ g # "h1"

\* A client sends POST /discharge.
PostDischarge(h) ==
    /\ ~crashed /\ hpc[h] = "idle" /\ CanServe(h)
    /\ quota' = quota - 1
    /\ hpc' = [hpc EXCEPT ![h] = "CheckThirdPartyCaveat"]
    /\ hreq' = [hreq EXCEPT ![h] = [NoHandlerRequest EXCEPT !.op = "discharge"]]
    /\ hret' = [hret EXCEPT ![h] = NoReturn]
    /\ UNCHANGED <<variant, setup, table, hres, events, crashed, auth, web, tls, units>>

\* FinishInteraction is called for the id, by the Visit handler or by a
\* handler of the test.
CallFinish(h, id, res) ==
    /\ ~crashed /\ hpc[h] = "idle" /\ CanServe(h) /\ setup.interactors
    /\ quota' = quota - 1
    /\ hpc' = [hpc EXCEPT ![h] = "FinishInteraction"]
    /\ hreq' = [hreq EXCEPT ![h] = [op |-> "finish", id |-> id, res |-> res]]
    /\ hret' = [hret EXCEPT ![h] = NoReturn]
    /\ UNCHANGED <<variant, setup, table, hres, events, crashed, auth, web, tls, units>>

\* A client sends GET /wait for the id.
GetWait(h, id) ==
    /\ ~crashed /\ hpc[h] = "idle" /\ CanServe(h) /\ setup.interactors
    /\ quota' = quota - 1
    /\ hpc' = [hpc EXCEPT ![h] = "Wait"]
    /\ hreq' = [hreq EXCEPT ![h] = [NoHandlerRequest EXCEPT !.op = "wait", !.id = id]]
    /\ hret' = [hret EXCEPT ![h] = NoReturn]
    /\ UNCHANGED <<variant, setup, table, hres, events, crashed, auth, web, tls, units>>

\* Discharger.CheckThirdPartyCaveat: with no Checker the caveat is discharged
\* unconditionally; the Checker of an interactive test calls
\* d.NewInteractionRequiredError.  d.interactors is not looked at.
CheckThirdPartyCaveat(h) ==
    /\ ~crashed /\ hpc[h] = "CheckThirdPartyCaveat"
    /\ IF setup.Checker = "nil"
       THEN Returns(h, Discharge(Result(<<>>, "nil")))
       ELSE /\ hpc' = [hpc EXCEPT ![h] = "NewInteractionRequiredError"]
            /\ UNCHANGED hret
    /\ UNCHANGED <<variant, setup, table, hreq, hres, quota, events, crashed, auth, web, tls, units>>

\* d.mu.Lock() in NewInteractionRequiredError.
NewInteractionLock(h) ==
    /\ ~crashed /\ hpc[h] = "NewInteractionRequiredError" /\ mu = ""
    /\ mu' = h
    /\ hpc' = [hpc EXCEPT ![h] = "NewInteractionRequiredError.locked"]
    /\ UNCHANGED <<variant, setup, maxId, discharges, waiting, imu, hreq, hres, hret,
                   quota, events, crashed, auth, web, tls, units>>

\* The body of NewInteractionRequiredError under the lock: the next id is
\* taken and its entry written; then the interactors set the interaction.
DischargerNewInteractionRequiredError(h) ==
    /\ ~crashed /\ hpc[h] = "NewInteractionRequiredError.locked"
    /\ maxId' = maxId + 1
    /\ IF variant = "bakerytest.go"
       THEN waiting' = Put(waiting, maxId, NewDischarge) /\ UNCHANGED discharges
       ELSE discharges' = discharges \cup {maxId} /\ UNCHANGED waiting
    /\ mu' = ""
    /\ hreq' = [hreq EXCEPT ![h].id = maxId]
    /\ events' = [events EXCEPT !.accesses = @ \cup
                      {Access("NewInteractionRequiredError", InfoTable, "d.mu")}]
    /\ IF setup.interactors
       THEN hpc' = [hpc EXCEPT ![h] = "SetInteraction"] /\ UNCHANGED hret
       ELSE Returns(h, InteractionRequiredReturn("no methods"))
    /\ UNCHANGED <<variant, setup, imu, hres, quota, crashed, auth, web, tls, units>>

\* VisitWaitHandler.SetInteraction: bakerytest.go only fills in the error;
\* part_000 first writes the future of the id into v.waiting, holding no lock.
SetInteractionStart(h) ==
    /\ ~crashed /\ hpc[h] = "SetInteraction"
    /\ IF variant = "bakerytest.go"
       THEN Returns(h, InteractionRequiredReturn("visit/wait"))
       ELSE hpc' = [hpc EXCEPT ![h] = "SetInteraction.write"] /\ UNCHANGED hret
    /\ UNCHANGED <<variant, setup, table, hreq, hres, quota, events, crashed, auth, web, tls, units>>

\* The map write of part_000's SetInteraction takes effect.
SetInteractionWrite(h) ==
    /\ ~crashed /\ hpc[h] = "SetInteraction.write"
    /\ waiting' = Put(waiting, hreq[h].id, NewDischarge)
    /\ events' = [events EXCEPT !.accesses = @ \cup
                      {Access("SetInteraction", "waiting",
                              IF imu = h THEN "i.mu" ELSE IF mu = h THEN "d.mu" ELSE "")}]
    /\ Returns(h, InteractionRequiredReturn("visit/wait"))
    /\ UNCHANGED <<variant, setup, maxId, discharges, mu, imu, hreq, hres, quota, crashed, auth, web, tls, units>>

\* The first statement of FinishInteraction: i.discharger.mu.Lock() in
\* bakerytest.go, i.mu.Lock() in part_000.
FinishLock(h) ==
    /\ ~crashed /\ hpc[h] = "FinishInteraction"
    /\ IF variant = "bakerytest.go"
       THEN mu = "" /\ mu' = h /\ UNCHANGED imu
       ELSE imu = "" /\ imu' = h /\ UNCHANGED mu
    /\ hpc' = [hpc EXCEPT ![h] = "FinishInteraction.locked"]
    /\ UNCHANGED <<variant, setup, maxId, discharges, waiting, hreq, hres, hret,
                   quota, events, crashed, auth, web, tls, units>>

\* bakerytest.go: the lookup under d.mu; the send comes after the unlock.
\* part_000: all of FinishInteraction under i.mu: the lookup (a panic when
\* the id is missing), the poll of discharge.done, the assignment of the
\* outcome and close(discharge.done).
FinishInteraction(h) ==
    /\ ~crashed /\ hpc[h] = "FinishInteraction.locked"
    /\ LET id == hreq[h].id
           ok == id \in DOMAIN waiting
       IN  IF variant = "bakerytest.go"
           THEN /\ mu' = ""
                /\ events' = [events EXCEPT !.accesses = @ \cup
                                  {Access("FinishInteraction", "waiting", "d.mu")}]
                /\ IF ok THEN hpc' = [hpc EXCEPT ![h] = "FinishInteraction.send"]
                              /\ UNCHANGED hret
                   ELSE Returns(h, Errorf("invalid wait id"))
                /\ UNCHANGED <<imu, waiting>>
           ELSE /\ imu' = ""
                /\ IF ~ok
                   THEN /\ Returns(h, Panic("invalid discharge id"))
                        /\ events' = [events EXCEPT !.accesses = @ \cup
                               {Access("FinishInteraction", "waiting", "i.mu")}]
                        /\ UNCHANGED waiting
                   ELSE IF waiting[id].done
                   THEN /\ Returns(h, Errorf("FinishInteraction called twice"))
                        /\ events' = [events EXCEPT
                               !.accesses = @ \cup
                                   {Access("FinishInteraction", "waiting", "i.mu")},
                               !.across = @ \cup {"FinishInteraction"}]
                        /\ UNCHANGED waiting
                   ELSE /\ waiting' = [waiting EXCEPT ![id] =
                               [done |-> TRUE, caveats |-> hreq[h].res.caveats,
                                err |-> hreq[h].res.err]]
                        /\ events' = [events EXCEPT
                               !.accesses = @ \cup
                                   {Access("FinishInteraction", "waiting", "i.mu")},
                               !.across = @ \cup {"FinishInteraction"},
                               !.accepted[id] = Append(@, hreq[h].res)]
                        /\ Returns(h, NilError)
                /\ UNCHANGED mu
    /\ UNCHANGED <<variant, setup, maxId, discharges, hreq, hres, quota,
                   crashed, auth, web, tls, units>>

\* bakerytest.go: the select of FinishInteraction: the result is sent when
\* the buffer of the channel has room, else the call fails.
FinishSend(h) ==
    /\ ~crashed /\ hpc[h] = "FinishInteraction.send"
    /\ LET id == hreq[h].id
       IN  IF Len(waiting[id].c) < 1
           THEN /\ waiting' = [waiting EXCEPT ![id].c = Append(@, hreq[h].res)]
                /\ events' = [events EXCEPT !.accepted[id] = Append(@, hreq[h].res)]
                /\ Returns(h, NilError)
           ELSE /\ Returns(h, Errorf("cannot finish interaction"))
                /\ UNCHANGED <<waiting, events>>
    /\ UNCHANGED <<variant, setup, maxId, discharges, mu, imu, hreq, hres, quota, crashed, auth, web, tls, units>>

\* d.mu.Lock() in Wait.
WaitLock(h) ==
    /\ ~crashed /\ hpc[h] = "Wait" /\ mu = ""
    /\ mu' = h
    /\ hpc' = [hpc EXCEPT ![h] = "Wait.locked"]
    /\ UNCHANGED <<variant, setup, maxId, discharges, waiting, imu, hreq, hres, hret,
                   quota, events, crashed, auth, web, tls, units>>

\* The lookup of Wait under d.mu, in d.waiting (bakerytest.go) or in
\* h.interactor.waiting (part_000).
WaitLookup(h) ==
    /\ ~crashed /\ hpc[h] = "Wait.locked"
    /\ mu' = ""
    /\ events' = [events EXCEPT !.accesses = @ \cup {Access("Wait", "waiting", "d.mu")}]
    /\ IF hreq[h].id \in DOMAIN waiting
       THEN hpc' = [hpc EXCEPT ![h] = "Wait.select"] /\ UNCHANGED hret
       ELSE Returns(h, Errorf("invalid wait id"))
    /\ UNCHANGED <<variant, setup, maxId, discharges, waiting, imu, hreq, hres, quota,
                   crashed, auth, web, tls, units>>

\* case <-time.After(5 * time.Second): five seconds pass in which the
\* blocked select receives nothing.
Timeout(h) ==
    /\ ~crashed /\ hpc[h] = "Wait.select" /\ ~Available(hreq[h].id)
    /\ Returns(h, Errorf("timeout waiting for interaction to complete"))
    /\ events' = [events EXCEPT !.timedOut = @ \cup {hreq[h].id},
                                !.settled = @ \cup {hreq[h].id}]
    /\ UNCHANGED <<variant, setup, table, hreq, hres, quota, crashed, auth, web, tls, units>>

\* case res := <-discharge.c (bakerytest.go): a failed interaction is
\* returned, else DischargeParams is called.
\* case <-discharge.done (part_000): CompleteDischarge is called, whatever
\* discharge.err holds.
WaitReceive(h) ==
    /\ ~crashed /\ hpc[h] = "Wait.select" /\ Available(hreq[h].id)
    /\ LET id == hreq[h].id
       IN  IF variant = "bakerytest.go"
           THEN LET res == Head(waiting[id].c)
                IN  /\ waiting' = [waiting EXCEPT ![id].c = Tail(@)]
                    /\ hres' = [hres EXCEPT ![h] = res]
                    /\ IF res.err # "nil"
                       THEN /\ Returns(h, Errorf(res.err))
                            /\ events' = [events EXCEPT !.settled = @ \cup {id}]
                       ELSE /\ hpc' = [hpc EXCEPT ![h] = "DischargeInfo"]
                            /\ UNCHANGED <<hret, events>>
           ELSE /\ hres' = [hres EXCEPT ![h] =
                        Result(waiting[id].caveats, waiting[id].err)]
                /\ hpc' = [hpc EXCEPT ![h] = "DischargeInfo"]
                /\ UNCHANGED <<waiting, hret, events>>
    /\ UNCHANGED <<variant, setup, maxId, discharges, mu, imu, hreq, quota,
                   crashed, auth, web, tls, units>>

\* d.mu.Lock() in DischargeParams (bakerytest.go) / DischargeInfo (part_000).
DischargeInfoLock(h) ==
    /\ ~crashed /\ hpc[h] = "DischargeInfo" /\ mu = ""
    /\ mu' = h
    /\ hpc' = [hpc EXCEPT ![h] = "DischargeInfo.locked"]
    /\ UNCHANGED <<variant, setup, maxId, discharges, waiting, imu, hreq, hres, hret,
                   quota, events, crashed, auth, web, tls, units>>

\* A wrapper that puts the caveats of FinishInteraction before the checker's.
WaitCheckerFinishFirst(res) ==
    IF variant = "bakerytest.go" THEN ThirdPartyChecker(setup.checker)
    ELSE IF setup.checker = "nil" THEN Result(res.caveats, "nil")
    ELSE LET r == ThirdPartyChecker(setup.checker)
         IN  IF r.err # "nil" THEN r ELSE Result(res.caveats \o r.caveats, "nil")

\* The checker of the discharge that Wait completes.  bakerytest.go: the
\* discharger's Checker, called with the interaction kind.  part_000: the
\* handler's checker, wrapped to append the caveats of FinishInteraction.
WaitChecker(res) ==
    IF variant = "bakerytest.go" THEN ThirdPartyChecker(setup.checker)
    ELSE IF setup.checker = "nil" THEN Result(res.caveats, "nil")
    ELSE LET r == ThirdPartyChecker(setup.checker)
         IN  IF r.err # "nil" THEN r ELSE Result(r.caveats \o res.caveats, "nil")

\* The rest of Wait: the caveat information is looked up under d.mu (a
\* panic when it is missing), bakery.Discharge mints the macaroon, and
\* bakerytest.go adds the caveats of FinishInteraction to it.
CompleteDischarge(h) ==
    /\ ~crashed /\ hpc[h] = "DischargeInfo.locked"
    /\ mu' = ""
    /\ LET id == hreq[h].id
           known == IF variant = "bakerytest.go" THEN DOMAIN waiting ELSE discharges
           m == Discharge(WaitChecker(hres[h]))
           r == IF id \notin known THEN Panic("discharge id not found")
                ELSE IF m.kind = "macaroon" /\ variant = "bakerytest.go"
                THEN AddCaveats(m, hres[h].caveats)
                ELSE m
       IN  /\ Returns(h, r)
           /\ events' = [events EXCEPT
                  !.accesses = @ \cup {Access("DischargeInfo", InfoTable, "d.mu")},
                  !.settled = @ \cup {id},
                  !.issued[id] = IF r.kind = "macaroon" THEN Append(@, r.caveats) ELSE @,
                  !.late = IF r.kind = "macaroon" /\ id \in events.timedOut
                           THEN @ \cup {id} ELSE @]
    /\ UNCHANGED <<variant, setup, maxId, discharges, waiting, imu, hreq, hres, quota, crashed, auth, web, tls, units>>

\* Two goroutines are in v.waiting at once, one of them writing it.
MapRace ==
    \E w \in Handlers : \E r \in Handlers \ {w} :
        /\ hpc[w] = "SetInteraction.write"
        /\ hpc[r] \in {"SetInteraction.write", "FinishInteraction.locked", "Wait.locked"}

\* The runtime detects the concurrent map access and stops the process.
Fatal ==
    /\ ~crashed /\ variant = "part_000" /\ MapRace
    /\ crashed' = TRUE
    /\ UNCHANGED <<variant, setup, table, handlers, quota, events, auth, web, tls, units>>

HandlerStep(h) ==
    \/ CheckThirdPartyCaveat(h)
    \/ NewInteractionLock(h)
    \/ DischargerNewInteractionRequiredError(h)
    \/ SetInteractionStart(h)
    \/ SetInteractionWrite(h)
    \/ FinishLock(h)
    \/ FinishInteraction(h)
    \/ FinishSend(h)
    \/ WaitLock(h)
    \/ WaitLookup(h)
    \/ Timeout(h)
    \/ WaitReceive(h)
    \/ DischargeInfoLock(h)
    \/ CompleteDischarge(h)

NextFlow ==
    \/ \E h \in Handlers :
           \/ PostDischarge(h)
           \/ \E id \in 0..maxId : \E res \in FinishArgs : CallFinish(h, id, res)
           \/ \E id \in 0..maxId : GetWait(h, id)
           \/ HandlerStep(h)
    \/ Fatal

\* The discharger as the tests set it up before the first request.
Setups ==
    [Checker : {"nil", "interaction"}, interactors : BOOLEAN,
     checker : {"nil", "caveats", "error"}]

InitFlow ==
    /\ InitAuth({}, {"nil"}, {}, <<>>)
    /\ NoWeb
    /\ NoTls
    /\ NoUnits
    /\ variant \in Variants
    /\ setup \in Setups
    /\ maxId = 0
    /\ discharges = {}
    /\ waiting = [id \in {} |-> NewDischarge]
    /\ mu = ""
    /\ imu = ""
    /\ hpc = [h \in Handlers |-> "idle"]
    /\ hreq = [h \in Handlers |-> NoHandlerRequest]
    /\ hres = [h \in Handlers |-> NoHandlerRequest.res]
    /\ hret = [h \in Handlers |-> NoReturn]
    /\ quota = MaxRequests
    /\ events = [NoEvents EXCEPT !.issued = [id \in Ids |-> <<>>],
                                 !.accepted = [id \in Ids |-> <<>>]]
    /\ crashed = FALSE

SpecFlow == InitFlow /\ [][NextFlow]_vars

----------------------------------------------------------------------------
(* C1.  The one-shot latch.                                                 *)

\* Some caller is inside initOnceFunc.
InitRunning == \E c \in Callers : pc[c] = "init"

\* C1: initOnceFunc is entered at most once whatever the callers do; a
\* caller that is at its authorization decision finds the initialization
\* over, having run once; and all callers have decided on the same
\* initError, identity and authIndexes, which are the checker's.
C1_InitRunsOnce ==
    /\ initRuns <= 1
    /\ \A c \in Callers :
        pc[c] = "decide" => initOnce.done /\ ~InitRunning /\ initRuns = 1
    /\ \A c \in Callers :
        seen[c].decided =>
            /\ seen[c].initError = initError
            /\ seen[c].identity = identity
            /\ seen[c].authIndexes = authIndexes
            /\ \A d \in Callers : seen[d].decided => seen[d] = seen[c]

\* Both callers have decided, on an identity that initialization found,
\* after one of them waited for the other's initialization.
C1_Witness ==
    /\ \A c \in Callers : seen[c].decided
    /\ identity # NoIdentity
    /\ initRuns = 1
    /\ \E c \in Callers : pc[c] = "decide"

----------------------------------------------------------------------------
(* C2 .. C5.  Initialization.                                               *)

Range(f) == {f[k] : k \in DOMAIN f}

\* The calls that have returned and not yet been taken by their caller.
Returned == {c \in Callers : ret[c].state = "returned"}

\* C2: a slice for which MacaroonOps returns an error is skipped without
\* failing, panicking or aborting: once the initialization is over, it has
\* examined every presented slice and no error is kept because of a slice.
C2_InitSkipsFailedSlices ==
    initOnce.done =>
        /\ i = Len(macaroons) + 1
        /\ (initError.kind # "nil" => idCalls = 1)

\* The verification of slice ms fails on a third-party caveat: the primary
\* macaroon is in order, but a discharge is missing or bound elsewhere.
FailsOnThirdParty(ms) ==
    /\ Len(ms) > 0
    /\ ms[1].idOk /\ ms[1].key \in StoredKeys /\ ms[1].sigOk
    /\ ~VerifiedConditions(ms[1], Tail(ms)).ok

\* Slices are presented, and each fails on a third-party caveat.
OnlyUnverified ==
    /\ Len(macaroons) > 0
    /\ \A k \in 1..Len(macaroons) : FailsOnThirdParty(macaroons[k])

\* A slice that fails on a third-party caveat is in no index, gives no
\* identity, authorizes no operation of a call and is in no AuthInfo.
UnverifiedUnused ==
    /\ \A k \in 1..Len(macaroons) :
        FailsOnThirdParty(macaroons[k]) =>
            /\ \A op \in Ops : k \notin Range(authIndexes[op])
            /\ identityFrom # k
    /\ \A c \in Returned :
        LET v == ret[c].val
        IN  /\ \A k \in 1..Len(v.authInfo.Macaroons) :
                ~FailsOnThirdParty(v.authInfo.Macaroons[k])
            /\ \A j \in 1..Len(v.trace.by) :
                v.trace.by[j] # 0 => ~FailsOnThirdParty(macaroons[v.trace.by[j]])

\* The Authorizer was asked about every requested operation and allowed
\* them all, without extra caveats.
AuthorizerAllowedAll(c) ==
    LET t == ret[c].val.trace
    IN  /\ t.called
        /\ t.need = req[c].ops
        /\ t.answer.err.kind = "nil"
        /\ t.answer.allowed = AllTrue(Len(req[c].ops))
        /\ t.answer.caveats = <<>>

ValidLogin(ms, ctxt) ==
    LET info == MacaroonOps(ms)
        chk == checkConditions(ctxt, LoginOp, info.conditions)
    IN  /\ ~info.err
        /\ info.ops = <<LoginOp>>
        /\ ~chk.err
        /\ ~DeclaredIdentity(chk.declared).err

\* The identity that slice ms declares.
DeclaredBy(ms) ==
    DeclaredIdentity(InferDeclaredFromConditions(MacaroonOps(ms).conditions)).identity

\* The slices that initOnceFunc's loop has gone past.
Examined == 1..(IF i > 0 THEN i - 1 ELSE 0)

\* The valid login macaroons among the slices examined.
ValidLogins == {k \in Examined : ValidLogin(macaroons[k], initCtxt)}

\* C4: the identity taken from the macaroons is the one declared by the
\* first slice, in presentation order, that is a valid login macaroon: as
\* soon as the loop has gone past such a slice the identity is that slice's,
\* no later login macaroon replaces it, and any other login macaroon is
\* neither indexed nor in the AuthInfo of a call.
C4_FirstLoginWins ==
    /\ ValidLogins # {} => identityFrom = Min(ValidLogins)
    /\ identityFrom >= 1 =>
        /\ identityFrom \in ValidLogins
        /\ identity = DeclaredBy(macaroons[identityFrom])
        /\ identityCaveats = <<>>
    /\ \A k \in Range(authIndexes[LoginOp]) : k = identityFrom
    /\ \A c \in Returned :
        LET used == ret[c].val.trace.used
            reported == ret[c].val.authInfo.Macaroons
        IN  /\ \A k \in DOMAIN used :
                /\ k # identityFrom
                /\ ~MacaroonOps(macaroons[k]).err
                /\ MacaroonOps(macaroons[k]).ops = <<LoginOp>>
                => ~used[k]
            /\ ~ret[c].val.authInfoNil =>
                Len(reported) = Cardinality({k \in DOMAIN used : used[k]})

\* Two valid login macaroons declaring different identities were presented,
\* and Allow(LoginOp) has returned the first one's identity and slice.
C4_Witness ==
    /\ Len(macaroons) = 2
    /\ ValidLogins = {1, 2}
    /\ DeclaredBy(macaroons[1]) # DeclaredBy(macaroons[2])
    /\ \E c \in Returned :
        /\ req[c].ops = <<LoginOp>>
        /\ ret[c].val.err.kind = "nil"
        /\ ret[c].val.authInfo.Identity = DeclaredBy(macaroons[1])
        /\ ret[c].val.authInfo.Macaroons = <<macaroons[1]>>

\* C5: during init IdentityFromContext is called if and only if no
\* presented login macaroon produced an identity; when it is called, its
\* identity and caveats become the checker's; when a login macaroon
\* produced the identity, identityCaveats stay empty.
C5_ContextIdentityIffNoLogin ==
    /\ initOnce.done => (idCalls = 1 <=> identityFrom < 1)
    /\ idCalls = 1 =>
        \E r \in IdentityFromContextResults :
            identity = r.identity /\ identityCaveats = r.caveats
    /\ identityFrom >= 1 => identityCaveats = <<>>

\* The same, for an initialization that went through all the slices.
C5_WhenInitReturns ==
    /\ initOnce.done /\ i > Len(macaroons) => (idCalls = 1 <=> identityFrom < 1)
    /\ idCalls = 1 =>
        \E r \in IdentityFromContextResults :
            identity = r.identity /\ identityCaveats = r.caveats
    /\ identityFrom >= 1 => identityCaveats = <<>>

----------------------------------------------------------------------------
(* C6 .. C10.  The decision.                                                *)

\* The calls that have returned from a decision made on a successful init.
Decided == {c \in Returned : Len(ret[c].val.trace.by) = Len(req[c].ops)
                             /\ initError.kind = "nil" /\ initOnce.done}

\* The places in authIndexes[op] of the slices whose conditions all pass
\* under op and ctxt.
Passing(op, ctxt) ==
    {k \in 1..Len(authIndexes[op]) :
        ~checkConditions(ctxt, op, conditions[authIndexes[op][k]]).err}

\* The first slice, in presentation order, indexed for op whose conditions
\* pass; 0 when there is none.
FirstFor(op, ctxt) ==
    IF Passing(op, ctxt) = {} THEN 0
    ELSE authIndexes[op][Min(Passing(op, ctxt))]

\* Operation j of call c is LoginOp requested together with others.
CombinedLogin(c, j) == req[c].ops[j] = LoginOp /\ Len(req[c].ops) > 1

\* The slices marked used by call c are those that authorized one of its
\* operations and the identity's login slice.
UsedAsAuthorized(c) ==
    LET t == ret[c].val.trace
    IN  {k \in DOMAIN t.used : t.used[k]} =
            ({t.by[j] : j \in 1..Len(t.by)} \ {0})
            \cup (IF identityFrom >= 1 THEN {identityFrom} ELSE {})

\* Every operation of call c that a slice authorizes is reported as
\* authorized, and a call whose operations are all authorized succeeds.
AuthorizedCounts(c) ==
    LET t == ret[c].val.trace
    IN  /\ \A j \in 1..Len(t.by) :
            t.by[j] # 0 /\ ~t.authedNil => t.authed[j]
        /\ (\A j \in 1..Len(t.by) : t.by[j] # 0) => t.err.kind = "nil"

\* C6: the requested operations are taken in the caller's order; for each,
\* except LoginOp requested together with other operations, which is passed
\* over, the slices indexed for it are tried in presentation order: the
\* first whose conditions all pass under the operation's context authorizes
\* it and is marked used, slices whose conditions fail are skipped without
\* failing the call.
C6_FirstPassingSliceAuthorizes ==
    \A c \in Decided :
        /\ \A j \in 1..Len(req[c].ops) :
            ret[c].val.trace.by[j] =
                IF CombinedLogin(c, j) THEN 0
                ELSE FirstFor(req[c].ops[j], req[c].ctxt)
        /\ UsedAsAuthorized(c)
        /\ AuthorizedCounts(c)

\* An operation was authorized by the second slice indexed for it, the
\* conditions of the first having failed, and the call succeeded.
C6_Witness ==
    \E c \in Decided :
        /\ Len(req[c].ops) = 2
        /\ \E j \in 1..2 :
            /\ Len(authIndexes[req[c].ops[j]]) = 2
            /\ Passing(req[c].ops[j], req[c].ctxt) = {2}
            /\ ret[c].val.trace.by[j] = 2
        /\ ret[c].val.err.kind = "nil"
        /\ ~ret[c].val.trace.called

\* C6 as stated: for each requested operation the slices indexed for it are
\* tried in presentation order and the first whose conditions pass
\* authorizes it and is marked used.
C6_EveryOpIsTried ==
    \A c \in Decided :
        /\ \A j \in 1..Len(req[c].ops) :
            ret[c].val.trace.by[j] = FirstFor(req[c].ops[j], req[c].ctxt)
        /\ UsedAsAuthorized(c)
        /\ AuthorizedCounts(c)

\* C7: a call whose operations include LoginOp succeeds only if the
\* presented macaroons hold a valid authentication macaroon, from which the
\* identity was taken.
C7_LoginNeedsAuthentication ==
    \A c \in Returned :
        LoginOp \in Range(req[c].ops) /\ ret[c].val.err.kind = "nil"
            => /\ identityFrom >= 1
               /\ ValidLogin(macaroons[identityFrom], initCtxt)

\* The Authorizer was called for call c and answered without error, one
\* answer per operation asked.
AuthorizerAnswered(c) ==
    LET t == ret[c].val.trace
    IN  /\ t.called
        /\ t.answer.err.kind = "nil"
        /\ Len(t.answer.allowed) = Len(t.need)

\* After the sweep and the Authorizer some operation of call c is still
\* unauthorized.
SomeOpRemains(c) ==
    LET t == ret[c].val.trace
    IN  \E k \in 1..Len(t.need) : ~t.answer.allowed[k]

\* C8: when after the sweep and a successful Authorizer call some operation
\* is still unauthorized, the Authorizer gave no extra caveats, the checker
\* has no identity and the IdentityClient supplied identity caveats, the
\* call returns a DischargeRequiredError with Ops [LoginOp] and those
\* identity caveats.
C8_LoginDischargeRequired ==
    \A c \in Decided :
        /\ AuthorizerAnswered(c) /\ SomeOpRemains(c)
        /\ ret[c].val.trace.answer.caveats = <<>>
        /\ identity = NoIdentity /\ identityCaveats # <<>>
        => /\ ret[c].val.err.kind = "DischargeRequiredError"
           /\ ret[c].val.err.Ops = <<LoginOp>>
           /\ ret[c].val.err.Caveats = identityCaveats
           /\ (req[c].method = "Allow" => ret[c].val.authInfoNil)

\* Allow has returned in the case of C8.
C8_Witness ==
    \E c \in Decided :
        /\ req[c].method = "Allow"
        /\ AuthorizerAnswered(c) /\ SomeOpRemains(c)
        /\ ret[c].val.trace.answer.caveats = <<>>
        /\ identity = NoIdentity /\ identityCaveats = <<IdentityCaveat>>
        /\ ret[c].val.err.cause = "DischargeRequiredError"

\* C9: when some operation is still unauthorized after the sweep and the
\* Authorizer, without extra caveats, and an identity is present, the call
\* fails with ErrPermissionDenied; and with a nil Authorizer, Allow for an
\* operation that no presented macaroon covers fails with
\* ErrPermissionDenied.
C9_PermissionDenied ==
    \A c \in Decided :
        /\ /\ AuthorizerAnswered(c) /\ SomeOpRemains(c)
           /\ ret[c].val.trace.answer.caveats = <<>>
           /\ identity # NoIdentity
           => ret[c].val.err.cause = "ErrPermissionDenied"
        /\ /\ params.Authorizer = "nil"
           /\ req[c].method = "Allow"
           /\ \E j \in 1..Len(req[c].ops) : authIndexes[req[c].ops[j]] = <<>>
           => ret[c].val.err.cause = "ErrPermissionDenied"

\* The first half of C9 alone.
C9_DeniedWithIdentity ==
    \A c \in Decided :
        /\ AuthorizerAnswered(c) /\ SomeOpRemains(c)
        /\ ret[c].val.trace.answer.caveats = <<>>
        /\ identity # NoIdentity
        => ret[c].val.err = ErrPermissionDenied

\* The Authorizer answered call c with extra caveats.
ExtraCaveats(c) ==
    ret[c].val.trace.called /\ ret[c].val.trace.answer.caveats # <<>>

----------------------------------------------------------------------------
(* C11 .. C13.  What a decision reports.                                    *)

\* C11: the Ops of a DischargeRequiredError hold only requested operations
\* that were not authorized: an operation listed in it was left
\* unauthorized, by the macaroons and by the Authorizer, at some place of
\* the request.
C11_OpsAreTheUnauthorized ==
    \A c \in Decided :
        ret[c].val.err.kind = "DischargeRequiredError" =>
            \A j \in 1..Len(req[c].ops) :
                req[c].ops[j] \in Range(ret[c].val.err.Ops) =>
                    \E k \in 1..Len(req[c].ops) :
                        /\ req[c].ops[k] = req[c].ops[j]
                        /\ ~ret[c].val.trace.authed[k]

\* Operation j of call c was allowed, by a slice or by the Authorizer.
OpAllowed(c, j) ==
    LET t == ret[c].val.trace
        asked == SelectSeq([k \in 1..Len(t.by) |-> k], LAMBDA k : t.by[k] = 0)
    IN  \/ t.by[j] # 0
        \/ /\ AuthorizerAnswered(c)
           /\ \E k \in 1..Len(asked) : asked[k] = j /\ t.answer.allowed[k]

\* C12: AllowAny returns a nil error with a nil slice whenever all the
\* operations succeeded; with an error after a successful init the slice
\* has one element per operation, telling whether it was allowed; the
\* AuthInfo is never nil.
C12_AllowAnyResults ==
    \A c \in Returned :
        req[c].method = "AllowAny" =>
            /\ ~ret[c].val.authInfoNil
            /\ ret[c].val.err.kind = "nil" => ret[c].val.authedNil
            /\ ret[c].val.err.kind # "nil" /\ c \in Decided =>
                /\ ~ret[c].val.authedNil
                /\ Len(ret[c].val.authed) = Len(req[c].ops)
                /\ \A j \in 1..Len(req[c].ops) :
                    ret[c].val.authed[j] <=> OpAllowed(c, j)

\* The same without the nil slice on success.
C12_AllowAnyOnError ==
    \A c \in Returned :
        req[c].method = "AllowAny" =>
            /\ ~ret[c].val.authInfoNil
            /\ ret[c].val.err.kind # "nil" /\ c \in Decided =>
                /\ ~ret[c].val.authedNil
                /\ Len(ret[c].val.authed) = Len(req[c].ops)
                /\ \A j \in 1..Len(req[c].ops) :
                    ret[c].val.authed[j] <=> OpAllowed(c, j)

\* The calls of Allow that have returned without error.
Allowed == {c \in Decided : req[c].method = "Allow" /\ ret[c].val.err.kind = "nil"}

\* The slices call c marked used, in presentation order.
UsedSlices(c) ==
    SelectSeq([k \in 1..Len(macaroons) |-> k],
              LAMBDA k : ret[c].val.trace.used[k])

\* The AuthInfo of call c holds its used slices, once each and in
\* presentation order, and each passed MacaroonOps.
ReportsUsedSlices(c) ==
    /\ ret[c].val.authInfo.Macaroons =
           [n \in 1..Len(UsedSlices(c)) |-> macaroons[UsedSlices(c)[n]]]
    /\ \A n \in 1..Len(UsedSlices(c)) :
           ~MacaroonOps(macaroons[UsedSlices(c)[n]]).err

\* Slice k authorized an operation of call c, under which all its
\* conditions pass in the context of the call.
PassesForCall(c, k) ==
    \E j \in 1..Len(req[c].ops) :
        /\ ret[c].val.trace.by[j] = k
        /\ ~checkConditions(req[c].ctxt, req[c].ops[j], conditions[k]).err

\* C13: after a successful Allow every slice of AuthInfo.Macaroons passed
\* MacaroonOps, each used slice appears once, in presentation order, and
\* has all its conditions satisfied under the context of the call, except
\* the login macaroon that supplied the identity: its conditions were
\* satisfied under the context of the call that ran the initialization.
C13_ReportedSlicesCheckOut ==
    \A c \in Allowed :
        /\ ReportsUsedSlices(c)
        /\ \A n \in 1..Len(UsedSlices(c)) :
            LET k == UsedSlices(c)[n]
            IN  \/ PassesForCall(c, k)
                \/ /\ k = identityFrom
                   /\ ~checkConditions(initCtxt, LoginOp, conditions[k]).err

\* Allow has succeeded under a later clock than the initialization's, and
\* its AuthInfo holds the login macaroon, which has expired since.
C13_Witness ==
    \E c \in Allowed :
        /\ identityFrom >= 1
        /\ ret[c].val.trace.used[identityFrom]
        /\ req[c].ctxt.now > initCtxt.now
        /\ checkConditions(req[c].ctxt, LoginOp, conditions[identityFrom]).err
        /\ ret[c].val.authInfo.Identity = identity

\* C13 as stated: after a successful Allow every slice of
\* AuthInfo.Macaroons passed MacaroonOps and has all its conditions
\* satisfied under the context of that call, the login macaroon included.
C13_AllCheckOutNow ==
    \A c \in Allowed :
        /\ ReportsUsedSlices(c)
        /\ \A n \in 1..Len(UsedSlices(c)) :
            LET k == UsedSlices(c)[n]
            IN  \/ PassesForCall(c, k)
                \/ /\ k = identityFrom
                   /\ ~checkConditions(req[c].ctxt, LoginOp, conditions[k]).err

----------------------------------------------------------------------------
(* C14, C15. The conditions of a capability.                                *)

\* The calls of AllowCapability that returned conditions.
Capable ==
    {c \in Returned : req[c].method = "AllowCapability" /\ ret[c].val.err.kind = "nil"}

\* The conditions of the slices allowAny reported as used, and the times of
\* their valid time-before conditions.
CondsOfUsed(c) ==
    UNION {Range(conditions[k]) :
              k \in {n \in 1..Len(ret[c].val.trace.used) : ret[c].val.trace.used[n]}}
ExpiriesOfUsed(c) ==
    {cond.t : cond \in {d \in CondsOfUsed(c) : d.name = "time-before" /\ d.t # 0}}

\* The used slices are those that authorized an operation, and the login
\* macaroon when there is an identity.
UsedAreAuthorizing(c) ==
    LET t == ret[c].val.trace
    IN  \A k \in 1..Len(t.used) :
            t.used[k] <=> \/ \E j \in 1..Len(t.by) : t.by[j] = k
                          \/ identity # NoIdentity /\ k = identityFrom

\* The result drops allow, deny and declared, and keeps every condition
\* that is none of these and no valid time-before.
DropsAndKeeps(c) ==
    LET conds == ret[c].val.conds
    IN  /\ \A k \in 1..Len(conds) : conds[k].name \notin {"allow", "deny", "declared"}
        /\ \A cond \in CondsOfUsed(c) :
               add0Keeps(cond) => cond \in Range(conds)

\* C14: on success AllowCapability returns conditions drawn from every used
\* slice: exactly one time-before when a used slice has a valid one, its
\* time the earliest of them; no allow, deny or declared; every other
\* condition of a used slice.
C14_SquashedConditions ==
    \A c \in Capable :
        LET conds == ret[c].val.conds
            tbs == {k \in 1..Len(conds) : conds[k].name = "time-before"}
        IN  /\ UsedAreAuthorizing(c)
            /\ DropsAndKeeps(c)
            /\ ExpiriesOfUsed(c) # {} =>
                   /\ Cardinality(tbs) = 1
                   /\ \A k \in tbs : conds[k].t = Min(ExpiriesOfUsed(c))

\* What holds of the time-before conditions of the result: there is one,
\* and each of them is the earliest.
C14_UpToDuplicates ==
    \A c \in Capable :
        LET conds == ret[c].val.conds
            tbs == {k \in 1..Len(conds) : conds[k].name = "time-before"}
        IN  /\ UsedAreAuthorizing(c)
            /\ DropsAndKeeps(c)
            /\ Range(conds) \subseteq CondsOfUsed(c) \cup {TimeBefore(t) : t \in ExpiriesOfUsed(c)}
            /\ ExpiriesOfUsed(c) # {} =>
                   /\ tbs # {}
                   /\ \A k \in tbs : conds[k].t = Min(ExpiriesOfUsed(c))

\* C15: the list AllowCapability returns is sorted and holds no condition
\* twice.
C15_SortedWithoutDuplicates ==
    \A c \in Capable :
        LET conds == ret[c].val.conds
        IN  \A k \in 1..(Len(conds) - 1) : CondLess(conds[k], conds[k + 1])

\* The list is sorted, duplicates aside.
C15_Sorted ==
    \A c \in Capable :
        LET conds == ret[c].val.conds
        IN  \A k \in 1..(Len(conds) - 1) : ~CondLess(conds[k + 1], conds[k])

----------------------------------------------------------------------------
(* C16. time-before.                                                        *)

\* No time-before condition of slice k has been reached under ctxt.
NotExpired(ctxt, k) ==
    \A cond \in Range(conditions[k]) :
        cond.name = "time-before" => ctxt.now < cond.t

\* Slice k carries time-before conditions only.
OnlyTimed(k) ==
    \A cond \in Range(conditions[k]) : cond.name = "time-before"

\* C16: a time-before t condition is satisfied if and only if now < t.  A
\* slice authorizes an operation only under a clock before each of its
\* times, a slice carrying nothing else authorizes its operation under any
\* such clock, and a slice a successful Allow reports was checked under the
\* clock of the call or is the login macaroon, checked under the clock of
\* the call that ran the initialization.
C16_TimeBeforeIsStrict ==
    \A c \in Decided :
        LET t == ret[c].val.trace
        IN  /\ \A j \in 1..Len(t.by) :
                   t.by[j] # 0 => NotExpired(req[c].ctxt, t.by[j])
            /\ \A j \in 1..Len(t.by) :
                   ~CombinedLogin(c, j) =>
                       \A k \in Range(authIndexes[req[c].ops[j]]) :
                           OnlyTimed(k) /\ NotExpired(req[c].ctxt, k) =>
                               t.by[j] \in 1..k
            /\ identityFrom >= 1 => NotExpired(initCtxt, identityFrom)
            /\ c \in Allowed =>
                   \A k \in 1..Len(t.used) :
                       t.used[k] => \/ NotExpired(req[c].ctxt, k)
                                    \/ k = identityFrom

\* A successful Allow under a clock that reads the expiry time of the first
\* slice for the operation: that slice is passed over and a later one, not
\* yet expired, authorizes the operation.
C16_Witness ==
    \E c \in Allowed :
        \E j \in 1..Len(req[c].ops) :
            \E k \in 1..Len(macaroons) :
                /\ k < ret[c].val.trace.by[j]
                /\ k \in Range(authIndexes[req[c].ops[j]])
                /\ OnlyTimed(k)
                /\ TimeBefore(req[c].ctxt.now) \in Range(conditions[k])
                /\ NotExpired(req[c].ctxt, ret[c].val.trace.by[j])

\* C16 as stated: no macaroon with a time-before t condition is accepted by
\* an Allow made at now >= t.
C16_RejectedFromExpiry ==
    \A c \in Allowed :
        \A k \in 1..Len(ret[c].val.trace.used) :
            ret[c].val.trace.used[k] => NotExpired(req[c].ctxt, k)

----------------------------------------------------------------------------
(* C17. The snapshot.                                                       *)

\* C17: once the initialization has completed no step of an Allow, AllowAny
\* or AllowCapability call changes identity, identityCaveats, authIndexes
\* or conditions.
C17_DecisionsKeepTheSnapshot ==
    [][initOnce.done =>
          UNCHANGED <<identity, identityCaveats, authIndexes, conditions>>]_vars

\* Two callers hold decisions of different methods, made under different
\* clocks on the identity and the indexes of one initialization.
C17_Witness ==
    /\ initOnce.done
    /\ initRuns = 1
    /\ identity # NoIdentity
    /\ authIndexes[LoginOp] # <<>>
    /\ Callers \subseteq Decided
    /\ \E c, d \in Callers :
           /\ req[c].method = "Allow"
           /\ req[d].method = "AllowCapability"
           /\ req[c].ctxt # req[d].ctxt
           /\ seen[c].identity = identity
           /\ seen[d].authIndexes = authIndexes

----------------------------------------------------------------------------
(* C18 .. C20. Error responses.                                             *)

\* ErrorToResponse has been called on werr.
Written == wpc \in {"responded", "interacted", "panicked"} /\ how # "legacy"

\* The code, the info and the version of the error werr, as its cause
\* carries them.
CodeOf(err) ==
    IF err.causeType \in {"*Error", "ErrorCode"} THEN err.cause.Code ELSE NoCode
InfoOf(err) == IF err.causeType = "*Error" THEN err.cause.Info ELSE NilInfo
VersionOf(err) == IF err.causeType = "*Error" THEN err.cause.version ELSE 0
AuthRequired(err) == CodeOf(err) \in {ErrDischargeRequired, ErrInteractionRequired}

FromRequest ==
    how \in {"NewDischargeRequiredErrorForRequest", "NewInteractionRequiredError"}

\* C19: the version of an error made from a request is 0 when the header
\* is absent, no integer or negative, the latest version when the header
\* reads more, and the header's value otherwise; it lies in
\* 0..LatestVersion and ErrorToResponse does not panic on the error.
C19_VersionOfRequest ==
    FromRequest =>
        LET a == Atoi(header)
            v == VersionOf(werr)
        IN  /\ header = <<>> \/ a.err \/ a.x < 0 => v = 0
            /\ ~a.err /\ a.x > LatestVersion => v = LatestVersion
            /\ ~a.err /\ a.x \in 0..LatestVersion => v = a.x
            /\ v \in 0..LatestVersion
            /\ wpc # "panicked"
            /\ Written => response.status = IF v = 0 THEN 407 ELSE 401

\* A request whose header reads more than the latest version is answered
\* with 401.
C19_Witness ==
    /\ FromRequest
    /\ Written
    /\ ~Atoi(header).err
    /\ Atoi(header).x > LatestVersion
    /\ VersionOf(werr) = LatestVersion
    /\ response.status = 401

\* The error of the response is an interaction-required error; it has an
\* entry for the kind; it carries parameters for the kind, as an entry or,
\* for a browser window, as the visit and wait URLs of a legacy error.
InteractionRequired == response.body.Code = ErrInteractionRequired
HasEntry(kind) ==
    /\ ~response.body.Info.nil
    /\ response.body.Info.InteractionMethods[kind] # NoData
Carries(kind) ==
    \/ HasEntry(kind)
    \/ /\ kind = BrowserWindowInteractionKind
       /\ ~response.body.Info.nil
       /\ response.body.Info.VisitURL # ""

\* C20: InteractionMethod succeeds only on an interaction-required error
\* that carries parameters for the kind; on an interaction-required error
\* with no entry for the kind it fails with cause
\* ErrInteractionMethodNotFound; no interactor is given the parameters of
\* another kind.
C20_OnlyItsOwnParameters ==
    wpc = "interacted" =>
        /\ outcome.err = "nil" => InteractionRequired /\ Carries(outcome.kind)
        /\ InteractionRequired /\ ~Carries(outcome.kind) =>
               outcome.cause = ErrInteractionMethodNotFound
        /\ outcome.err = "nil" => outcome.data = ParamsOf(outcome.kind)

\* What holds when the error has InteractionMethods.
C20_WithInteractionMethods ==
    wpc = "interacted" /\ ~response.body.Info.nil /\ ~response.body.Info.methodsNil =>
        /\ outcome.err = "nil" => InteractionRequired /\ HasEntry(outcome.kind)
        /\ InteractionRequired /\ ~HasEntry(outcome.kind) =>
               outcome.cause = ErrInteractionMethodNotFound
        /\ outcome.err = "nil" => outcome.data = ParamsOf(outcome.kind)

----------------------------------------------------------------------------
(* C21 .. C28. The interactive test discharger.                             *)

\* The handlers whose request has returned.
Served(op) == {h \in Handlers : hreq[h].op = op /\ hret[h].kind # "none"}

\* C21: once AddInteractor has been called, every POST /discharge is
\* answered with an interaction-required error, whatever the Checker field
\* holds, and never with a discharge macaroon.
C21_InteractorsRequireInteraction ==
    setup.interactors =>
        \A h \in Served("discharge") : hret[h].kind = "interaction-required"

\* Without a Checker the claim's case does not arise: a discharger that has
\* an interactor and a Checker that asks for the interaction answers every
\* POST /discharge with an interaction-required error.
C21_WithInteractiveChecker ==
    setup.interactors /\ setup.Checker = "interaction" =>
        \A h \in Served("discharge") : hret[h].kind = "interaction-required"

\* C22: for each discharge id at most one FinishInteraction call succeeds,
\* however the calls and the Wait requests interleave: a later call fails
\* and adds no outcome to the ones accepted for the id.
C22_OneFinishPerId ==
    \A id \in Ids : Len(events.accepted[id]) <= 1

\* The futures of part_000 accept one outcome: once done is closed every
\* FinishInteraction fails.
C22_FutureFinishesOnce ==
    variant = "part_000" => \A id \in Ids : Len(events.accepted[id]) <= 1

\* The channel of bakerytest.go refuses a second outcome only while the
\* first is still in its buffer.
C22_ChannelHoldsOne ==
    variant = "bakerytest.go" =>
        \A id \in DOMAIN waiting : Len(waiting[id].c) <= 1

\* C23: a Wait request that receives an outcome whose err is not nil
\* returns an error and mints no discharge macaroon: a discharge is
\* completed only for an outcome whose err is nil.
C23_FailedInteractionFailsWait ==
    \A h \in Served("wait") :
        /\ hres[h].err # "nil" => hret[h].kind = "error"
        /\ hret[h].kind = "macaroon" => hres[h].err = "nil"

\* bakerytest.go looks at res.err before it discharges.
C23_ChannelFailsWait ==
    variant = "bakerytest.go" =>
        \A h \in Served("wait") : hres[h].err # "nil" => hret[h].kind = "error"

\* The handler goroutines are scheduled fairly and time passes: a handler
\* that can take a step takes it, and the timer of a select that receives
\* nothing fires.
SpecFlowFair == SpecFlow /\ \A h \in Handlers : WF_vars(HandlerStep(h))

WaitPcs ==
    {"Wait", "Wait.locked", "Wait.select", "DischargeInfo", "DischargeInfo.locked"}

\* C24: every Wait request returns: when no outcome arrives in time it
\* returns the timeout error and issues no macaroon, and for an unknown id
\* it returns an error without waiting.
C24_WaitReturns ==
    \A h \in Handlers : (hpc[h] \in WaitPcs) ~> (hpc[h] = "idle")

\* As long as the runtime does not stop the process every Wait request
\* returns.
C24_WaitReturnsUnlessCrashed ==
    \A h \in Handlers : (hpc[h] \in WaitPcs) ~> (hpc[h] = "idle" \/ crashed)

\* A Wait for an id that is not in the table fails without reaching the
\* select.
C24_UnknownIdFails ==
    \A h \in Handlers :
        /\ hpc[h] \in {"Wait.select", "DischargeInfo", "DischargeInfo.locked"} =>
               hreq[h].id \in DOMAIN waiting
        /\ h \in Served("wait") /\ hreq[h].id >= maxId =>
               hret[h] = Errorf("invalid wait id")

\* C25: DischargeIssued and TimedOut are terminal states of a discharge id:
\* at most one discharge macaroon is ever issued for an id, and none after
\* a Wait on the id has timed out.
C25_IssuedAndTimedOutAreTerminal ==
    \A id \in Ids :
        /\ Len(events.issued[id]) <= 1
        /\ id \notin events.late

\* What the channel of bakerytest.go does ensure: each accepted outcome is
\* received by one Wait, so no more macaroons are issued for an id than
\* FinishInteraction calls succeeded for it.
C25_OneDischargePerOutcome ==
    variant = "bakerytest.go" =>
        \A id \in Ids : Len(events.issued[id]) <= Len(events.accepted[id])

\* No macaroon is issued for an id before an outcome has been accepted.
C25_PendingIssuesNothing ==
    \A id \in Ids : events.accepted[id] = <<>> => events.issued[id] = <<>>

\* The ids that have an entry in a table of the discharger.
Pending == DOMAIN waiting \cup discharges

\* C26: an id whose discharge has been issued, has failed, or whose wait
\* has timed out has no entry in the discharger's tables any more.
C26_EndedFlowsLeaveTheTable ==
    events.settled \cap Pending = {}

\* No step removes an entry: the tables hold every id ever given out.
C26_EntriesAreKept ==
    [][Pending \subseteq Pending']_vars

\* The conditions the first-party checker of the target service is given
\* when it verifies its macaroon, minted with a third-party caveat for the
\* discharger, together with a discharge macaroon that carries cavs.
Conditions(cavs) == [k \in 1..Len(cavs) |-> strCaveat(cavs[k])]
Observed(cavs) ==
    VerifiedConditions(
        PrimaryMac(<<ReadOp>>, <<FP(TimeBefore(1)), TP("something")>>),
        <<DischargeMac("something",
                       [k \in 1..Len(cavs) |-> FP(strCaveat(cavs[k]))],
                       "primary")>>).conds

\* The Wait requests that returned a macaroon for a successful interaction.
Discharged ==
    {h \in Served("wait") : hret[h].kind = "macaroon" /\ hres[h].err = "nil"}

\* C27: the discharge macaroon that Wait returns for FinishInteraction(id,
\* cavs, nil) carries the caveats of the checker and then cavs, each in its
\* order, so the first-party checker is given time-before, the checker's
\* conditions and then the conditions of FinishInteraction.
C27_CheckerCaveatsThenFinishCaveats ==
    \A h \in Discharged :
        LET checked == ThirdPartyChecker(setup.checker).caveats
        IN  /\ hret[h].caveats = checked \o hres[h].caveats
            /\ Observed(hret[h].caveats) =
                   <<TimeBefore(1)>> \o Conditions(checked)
                                     \o Conditions(hres[h].caveats)

\* TestInteractiveDischargerFinishInteraction: the checker gives condition1,
\* FinishInteraction condition2.
C27_Witness ==
    \E h \in Discharged :
        /\ hres[h].caveats = <<"condition2">>
        /\ Observed(hret[h].caveats) =
               <<TimeBefore(1), strCaveat("condition1"), strCaveat("condition2")>>

\* The table the handler h is reading or writing.
Accessing(h) ==
    CASE hpc[h] \in {"NewInteractionRequiredError.locked", "DischargeInfo.locked"} ->
             InfoTable
      [] hpc[h] \in {"SetInteraction.write", "FinishInteraction.locked", "Wait.locked"} ->
             "waiting"
      [] OTHER -> ""

\* C28: every access to a table of pending discharges is made under the one
\* mutex of that table, the mutex is not held across a channel operation,
\* and no two handlers are in the same table at once.
C28_TablesAreGuarded ==
    /\ \A a \in events.accesses : a.lock # ""
    /\ \A a, b \in events.accesses : a.table = b.table => a.lock = b.lock
    /\ events.across = {}
    /\ \A g, h \in Handlers :
           g # h /\ Accessing(g) # "" => Accessing(g) # Accessing(h)

\* bakerytest.go has one table and takes d.mu around each access to it; the
\* channel operations come after the unlock.
C28_ChannelVariantIsGuarded ==
    variant = "bakerytest.go" =>
        /\ \A a \in events.accesses : a.lock = "d.mu"
        /\ events.across = {}
        /\ \A g, h \in Handlers :
               g # h /\ Accessing(g) # "" => Accessing(g) # Accessing(h)

\* d.discharges of part_000 is read and written under d.mu only.
C28_DischargesAreGuarded ==
    /\ \A a \in events.accesses : a.table = "discharges" => a.lock = "d.mu"
    /\ \A g, h \in Handlers :
           g # h /\ Accessing(g) = "discharges" => Accessing(h) # "discharges"

----------------------------------------------------------------------------
(* The skip-verify reference count of package bakerytest.  Each discharger  *)
(* is created and closed by a goroutine of its own; the goroutines meet in  *)
(* skipVerify and in the TLS configuration of http.DefaultTransport.        *)

\* Without a TLSClientConfig there is no flag: verification is on.
Flag == tlsConfig.set /\ tlsConfig.InsecureSkipVerify

\* NewDischarger up to the call of startSkipVerify: the TLS server is
\* started and kept in d.server.
NewDischarger(d) ==
    /\ dpc[d] = "none"
    /\ server' = [server EXCEPT ![d] = "up"]
    /\ dpc' = [dpc EXCEPT ![d] = "startSkipVerify"]
    /\ UNCHANGED <<refCount, oldSkipVerify, skipMu, tlsConfig, closes, original,
                   auth, web, flow, units>>

\* v.mu.Lock() in startSkipVerify and in stopSkipVerify.
SkipVerifyLock(d) ==
    /\ dpc[d] \in {"startSkipVerify", "stopSkipVerify"} /\ skipMu = 0
    /\ skipMu' = d
    /\ dpc' = [dpc EXCEPT ![d] = IF dpc[d] = "startSkipVerify"
                                  THEN "startSkipVerify.locked"
                                  ELSE "stopSkipVerify.locked"]
    /\ UNCHANGED <<refCount, oldSkipVerify, tlsConfig, server, closes, original,
                   auth, web, flow, units>>

\* A startSkipVerify that saves the flag on every call.
startSkipVerifyAlwaysSaves(d) ==
    /\ dpc[d] = "startSkipVerify.locked"
    /\ refCount' = refCount + 1
    /\ oldSkipVerify' = Flag
    /\ tlsConfig' = [set |-> TRUE, InsecureSkipVerify |-> TRUE]
    /\ skipMu' = 0
    /\ dpc' = [dpc EXCEPT ![d] = "open"]
    /\ UNCHANGED <<server, closes, original, auth, web, flow, units>>

\* The body of startSkipVerify under the lock; NewDischarger then returns.
startSkipVerify(d) ==
    /\ dpc[d] = "startSkipVerify.locked"
    /\ refCount' = refCount + 1
    /\ IF refCount + 1 > 1
       THEN UNCHANGED <<oldSkipVerify, tlsConfig>>
       ELSE IF tlsConfig.set
       THEN /\ oldSkipVerify' = tlsConfig.InsecureSkipVerify
            /\ tlsConfig' = [tlsConfig EXCEPT !.InsecureSkipVerify = TRUE]
       ELSE /\ oldSkipVerify' = FALSE
            /\ tlsConfig' = [set |-> TRUE, InsecureSkipVerify |-> TRUE]
    /\ skipMu' = 0
    /\ dpc' = [dpc EXCEPT ![d] = "open"]
    /\ UNCHANGED <<server, closes, original, auth, web, flow, units>>

\* A Close that does not look at d.server.
CloseAgain(d) ==
    /\ dpc[d] = "open" /\ closes[d] > 0
    /\ closes' = [closes EXCEPT ![d] = @ - 1]
    /\ server' = [server EXCEPT ![d] = "closed"]
    /\ dpc' = [dpc EXCEPT ![d] = "stopSkipVerify"]
    /\ UNCHANGED <<refCount, oldSkipVerify, skipMu, tlsConfig, original, auth, web, flow, units>>

\* Discharger.Close up to the call of stopSkipVerify: nothing is done when
\* d.server is nil, else the server is closed.
Close(d) ==
    /\ dpc[d] = "open" /\ closes[d] > 0
    /\ closes' = [closes EXCEPT ![d] = @ - 1]
    /\ IF server[d] = "nil"
       THEN UNCHANGED <<server, dpc>>
       ELSE /\ server' = [server EXCEPT ![d] = "closed"]
            /\ dpc' = [dpc EXCEPT ![d] = "stopSkipVerify"]
    /\ UNCHANGED <<refCount, oldSkipVerify, skipMu, tlsConfig, original, auth, web, flow, units>>

\* The body of stopSkipVerify under the lock; Close then sets d.server to
\* nil and returns.
stopSkipVerify(d) ==
    /\ dpc[d] = "stopSkipVerify.locked"
    /\ refCount' = refCount - 1
    /\ IF refCount - 1 > 0
       THEN UNCHANGED tlsConfig
       ELSE tlsConfig' = [tlsConfig EXCEPT !.InsecureSkipVerify = oldSkipVerify]
    /\ skipMu' = 0
    /\ server' = [server EXCEPT ![d] = "nil"]
    /\ dpc' = [dpc EXCEPT ![d] = "open"]
    /\ UNCHANGED <<oldSkipVerify, closes, original, auth, web, flow, units>>

NextTls ==
    \E d \in Dischargers :
        \/ NewDischarger(d)
        \/ SkipVerifyLock(d)
        \/ startSkipVerify(d)
        \/ Close(d)
        \/ stopSkipVerify(d)

\* No discharger has been created yet; the transport may have a TLS
\* configuration, and its flag may be set already.
InitTls ==
    /\ InitAuth({}, {"nil"}, {}, <<>>)
    /\ NoWeb
    /\ NoFlow
    /\ NoUnits
    /\ refCount = 0
    /\ oldSkipVerify = FALSE
    /\ skipMu = 0
    /\ tlsConfig \in {[set |-> FALSE, InsecureSkipVerify |-> FALSE],
                      [set |-> TRUE, InsecureSkipVerify |-> FALSE],
                      [set |-> TRUE, InsecureSkipVerify |-> TRUE]}
    /\ server = [d \in Dischargers |-> "nil"]
    /\ dpc = [d \in Dischargers |-> "none"]
    /\ closes = [d \in Dischargers |-> MaxCloses]
    /\ original = Flag

SpecTls == InitTls /\ [][NextTls]_vars

----------------------------------------------------------------------------
(* C29, C30. The skip-verify flag.                                          *)

\* The dischargers that NewDischarger has returned and on which Close has
\* not been called, and the ones whose first Close has returned.
Open == {d \in Dischargers : dpc[d] = "open" /\ server[d] = "up"}
Closed == {d \in Dischargers : dpc[d] = "open" /\ server[d] = "nil"}

\* C29: while a discharger is open the InsecureSkipVerify flag is true, and
\* when every discharger that was created has been closed the flag has the
\* value it had before the first was created.
C29_FlagWhileOpenAndRestored ==
    /\ Open # {} => Flag
    /\ Closed # {} /\ (\A d \in Dischargers : d \in Closed \/ dpc[d] = "none") =>
           Flag = original

\* Two dischargers were open together, both are closed, and the flag that
\* was false before is false again (TestInsecureSkipVerifyRestoration).
C29_Witness ==
    /\ Closed = Dischargers
    /\ ~original /\ ~Flag /\ tlsConfig.set

\* The dischargers that hold a reference: startSkipVerify has run for them
\* and stopSkipVerify has not.
Referencing ==
    {d \in Dischargers :
        \/ dpc[d] \in {"stopSkipVerify", "stopSkipVerify.locked"}
        \/ dpc[d] = "open" /\ server[d] = "up"}

\* C30: only the first Close of a discharger releases its reference:
\* refCount is the number of dischargers created and not yet closed, it is
\* never negative, and oldSkipVerify is assigned only when refCount goes
\* from 0 to 1.
C30_RefCountCountsOpenDischargers ==
    /\ [](refCount = Cardinality(Referencing) /\ refCount >= 0)
    /\ [][oldSkipVerify' # oldSkipVerify => refCount = 0 /\ refCount' = 1]_vars

\* A discharger has been closed a second time while another is open.
C30_Witness ==
    \E d \in Closed : closes[d] < MaxCloses - 1 /\ refCount = 1 /\ Open # {}

----------------------------------------------------------------------------
(* Multi-op entities (src/bakery/authstore_test.go, newMultiOpEntity).      *)

\* largest number of ops in one list given to newMultiOpEntity
MaxEntityOps == 3

\* The op lists newMultiOpEntity is called with.
EntityOpLists == UNION {[1..n -> Ops] : n \in 0..MaxEntityOps}

\* The bytes of the strings the ops are made of.
Bytes(s) ==
    CASE s = "e1" -> <<101, 49>>
      [] s = "login" -> <<108, 111, 103, 105, 110>>
      [] s = "read" -> <<114, 101, 97, 100>>
      [] s = "write" -> <<119, 114, 105, 116, 101>>

\* Go's s < t on strings: the order of their bytes.
RECURSIVE BytesLess(_, _)
BytesLess(a, b) ==
    IF b = <<>> THEN FALSE
    ELSE IF a = <<>> THEN TRUE
    ELSE IF Head(a) # Head(b) THEN Head(a) < Head(b)
    ELSE BytesLess(Tail(a), Tail(b))

StringLess(s, t) == BytesLess(Bytes(s), Bytes(t))

\* opsByValue.Less
opsByValueLess(o1, o2) ==
    IF o1.Entity # o2.Entity THEN StringLess(o1.Entity, o2.Entity)
    ELSE StringLess(o1.Action, o2.Action)

\* sort.Sort(opsByValue(ops)): the ops in the order of Less.
RECURSIVE InsertOp(_, _)
InsertOp(op, sorted) ==
    IF sorted = <<>> THEN <<op>>
    ELSE IF opsByValueLess(op, Head(sorted)) THEN <<op>> \o sorted
    ELSE <<Head(sorted)>> \o InsertOp(op, Tail(sorted))

RECURSIVE SortOps(_)
SortOps(ops) ==
    IF ops = <<>> THEN <<>> ELSE InsertOp(Head(ops), SortOps(Tail(ops)))

\* hash.Hash: the state of the hash after Write(data), and Sum.  The
\* digest is two bytes long.
HashNew == 7
RECURSIVE HashWrite(_, _)
HashWrite(h, data) ==
    IF data = <<>> THEN h
    ELSE HashWrite((h * 31 + Head(data)) % 65536, Tail(data))
HashSum(h) == <<h \div 256, h % 256>>

\* fmt's %x of a byte slice: two hexadecimal digits for each byte.
HexDigits == <<"0", "1", "2", "3", "4", "5", "6", "7",
               "8", "9", "a", "b", "c", "d", "e", "f">>
RECURSIVE Hex(_)
Hex(bs) ==
    IF bs = <<>> THEN ""
    ELSE HexDigits[(Head(bs) \div 16) + 1] \o HexDigits[(Head(bs) % 16) + 1]
         \o Hex(Tail(bs))

multiOpEntityPrefix == "multi"

\* The loop of newMultiOpEntity from index k on: ops is the slice, which
\* the loop writes to, prevOp the op last kept, j the number of ops kept
\* and h the hash.
RECURSIVE multiOpLoop(_, _, _, _, _)
multiOpLoop(ops, k, prevOp, j, h) ==
    IF k > Len(ops) THEN [ops |-> ops, j |-> j, h |-> h]
    ELSE IF k > 1 /\ ops[k] = prevOp THEN multiOpLoop(ops, k + 1, prevOp, j, h)
    ELSE LET op == ops[k]
             data == Bytes(op.Action) \o <<10>> \o Bytes(op.Entity) \o <<10>>
         IN  multiOpLoop([ops EXCEPT ![j + 1] = op], k + 1, op, j + 1,
                         HashWrite(h, data))

\* newMultiOpEntity without the sort.
newMultiOpEntityUnsorted(ops) ==
    LET r == multiOpLoop(ops, 1, [Entity |-> "", Action |-> ""], 0, HashNew)
    IN  [entity |-> multiOpEntityPrefix \o "-" \o Hex(HashSum(r.h)),
         ops |-> SubSeq(r.ops, 1, r.j),
         arg |-> r.ops]

\* newMultiOpEntity: the entity name, the ops returned (ops[0:j]) and the
\* caller's slice as the call leaves it.
newMultiOpEntity(ops) ==
    LET r == multiOpLoop(SortOps(ops), 1, [Entity |-> "", Action |-> ""], 0, HashNew)
    IN  [entity |-> multiOpEntityPrefix \o "-" \o Hex(HashSum(r.h)),
         ops |-> SubSeq(r.ops, 1, r.j),
         arg |-> r.ops]

\* A caller calls newMultiOpEntity with its next op list.
CallNewMultiOpEntity ==
    /\ Len(entityRet) < Len(opsArg)
    /\ LET k == Len(entityRet) + 1
           r == newMultiOpEntity(opsArg[k])
       IN  /\ entityRet' = Append(entityRet,
                               [in |-> opsArg[k], entity |-> r.entity, ops |-> r.ops])
           /\ opsArg' = [opsArg EXCEPT ![k] = r.arg]
    /\ UNCHANGED <<auth, web, bakerytest, service, acl, browser>>

NextEntity == CallNewMultiOpEntity

InitEntity ==
    /\ InitAuth({}, {"nil"}, {}, <<>>)
    /\ NoWeb
    /\ NoFlow
    /\ NoTls
    /\ opsArg \in EntityOpLists \X EntityOpLists
    /\ entityRet = <<>>
    /\ NoService
    /\ NoAcl
    /\ NoBrowser

SpecEntity == InitEntity /\ [][NextEntity]_vars

OpSet(ops) == {ops[k] : k \in DOMAIN ops}
SortedOps(ops) ==
    \A k \in 1..(Len(ops) - 1) : opsByValueLess(ops[k], ops[k + 1])

\* C31: newMultiOpEntity is deterministic and independent of the order and
\* of the repetitions of its argument: two calls with op lists that are
\* equal as sets return the same "multi-" entity name and the same op
\* list, and every op list returned holds the ops of the argument, sorted
\* strictly by (entity, action), so with no op twice.
C31_EntityOfTheOpSet ==
    /\ \A k \in DOMAIN entityRet :
          /\ OpSet(entityRet[k].ops) = OpSet(entityRet[k].in)
          /\ SortedOps(entityRet[k].ops)
    /\ Len(entityRet) = 2 /\ OpSet(entityRet[1].in) = OpSet(entityRet[2].in)
          => /\ entityRet[1].entity = entityRet[2].entity
             /\ entityRet[1].ops = entityRet[2].ops

\* Two calls have returned whose arguments were different lists of the
\* same two or more ops, one of them with an op twice.
C31_Witness ==
    /\ Len(entityRet) = 2
    /\ entityRet[1].in # entityRet[2].in
    /\ OpSet(entityRet[1].in) = OpSet(entityRet[2].in)
    /\ Cardinality(OpSet(entityRet[1].in)) >= 2
    /\ Len(entityRet[1].in) > Cardinality(OpSet(entityRet[1].in))
    /\ Len(entityRet[2].in) = Cardinality(OpSet(entityRet[2].in))
    /\ ~SortedOps(entityRet[2].in)
    /\ entityRet[1].entity = entityRet[2].entity

----------------------------------------------------------------------------
(* C32.  Minting (src/bakery/authstore_test.go, macaroonStore.NewMacaroon). *)

\* The ops and the caveats the service asks the store to mint with.
MintOps == {<<LoginOp>>, <<ReadOp>>, <<LoginOp, ReadOp>>, <<ReadOp, LoginOp>>}
MintCaveats == {<<>>, <<FP(Declared("bob"))>>, <<FP(TimeBefore(0))>>}

\* macaroonStore.NewMacaroon(ops, caveats, ns): the store mints a macaroon
\* whose id holds the ops as given; the client will present it in a slice
\* of its own.  Macaroons are minted before Checker.Auth is called.
MacaroonStoreNewMacaroon(ops, caveats) ==
    /\ initRuns = 0
    /\ \A c \in Callers : pc[c] = "idle" /\ req[c] = NoRequest
    /\ Len(macaroons) < MaxSlices
    /\ macaroons' = Append(macaroons, <<PrimaryMac(ops, caveats)>>)
    /\ UNCHANGED <<web, bakerytest, units, params, requests, checker, callers, history>>

NextMint ==
    \/ \E ops \in MintOps, caveats \in MintCaveats : MacaroonStoreNewMacaroon(ops, caveats)
    \/ Next

InitMint ==
    InitWith({}, {"nil"}, RequestsOf({"Allow"}, {<<LoginOp>>, <<ReadOp>>}),
             [c \in {"c1"} |-> 1])

SpecMint == InitMint /\ [][NextMint]_vars

\* C32: no macaroon minted has an id with LoginOp together with another
\* op, and every slice the checker has indexed under LoginOp is a slice of
\* the single op LoginOp whose conditions passed the check of init.
C32_LoginOpIsNeverMixed ==
    /\ \A k \in DOMAIN macaroons :
          LoginOp \in OpSet(macaroons[k][1].ops)
              => OpSet(macaroons[k][1].ops) = {LoginOp}
    /\ \A k \in Range(authIndexes[LoginOp]) :
          /\ MacaroonOps(macaroons[k]).ops = <<LoginOp>>
          /\ ~checkConditions(initCtxt, LoginOp, conditions[k]).err

----------------------------------------------------------------------------
(* C33.  The Service of src/bakery/common_test.go: NewMacaroon, Discharge,   *)
(* Request.AddClientMacaroon and Request.Check.                             *)

\* largest number of macaroons a client adds to one Request
MaxClientMacaroons == 2

\* The ids NewMacaroon is called with, and the ids of the third-party
\* caveats addressed to the service: one that decodes and one that does
\* not.
MacaroonIds == {"m1"}
CaveatIds == {"c1", "garbage"}

\* The caveats a macaroon is minted with: first-party conditions that the
\* request's checker accepts or refuses, or a third-party caveat for a
\* location the locator knows or does not know.
ServiceCaveats ==
    {<<>>, <<[Location |-> "", Condition |-> "true"]>>,
     <<[Location |-> "", Condition |-> "false"]>>,
     <<[Location |-> "as", Condition |-> "user"]>>,
     <<[Location |-> "unknown", Condition |-> "user"]>>}

\* What the ThirdPartyChecker given to Discharge answers: caveats or an
\* error.
ServiceCheckerResults ==
    {[caveats |-> <<>>, err |-> "nil"],
     [caveats |-> <<[Location |-> "", Condition |-> "true"]>>, err |-> "nil"],
     [caveats |-> <<>>, err |-> "condition not met"]}

\* macaroon.New(rootKey, id, location) with the caveats added since: the
\* root key is the one stored under (NewMacaroon) or decoded from
\* (Discharge) the id.
ServiceMacaroon(id, caveats) == [id |-> id, caveats |-> caveats]

\* Service.AddCaveat fails on any of the caveats: the locator does not
\* know the location of a third-party caveat.
AddCaveatFails(caveats) ==
    \E k \in DOMAIN caveats : caveats[k].Location = "unknown"

\* Service.NewMacaroon(id, rootKey, caveats): the macaroon is put in the
\* store under its id before the caveats are added, and deleted from it
\* when a caveat cannot be added.
ServiceNewMacaroonDo(id, caveats) ==
    IF AddCaveatFails(caveats)
    THEN /\ store' = store \ {id}
         /\ UNCHANGED minted
    ELSE /\ store' = store \cup {id}
         /\ minted' = minted \cup {ServiceMacaroon(id, caveats)}

ServiceNewMacaroon(id, caveats) ==
    /\ ServiceNewMacaroonDo(id, caveats)
    /\ UNCHANGED <<reqMacaroons, inStorage, checkRet, auth, web, bakerytest, oven, acl, browser>>

\* Service.Discharge(checker, id): decode the caveat id, ask the checker,
\* then mint the discharge macaroon with svc.NewMacaroon(id, rootKey, caveats).
ServiceDischarge(id, res) ==
    /\ IF id = "garbage" \/ res.err # "nil"
       THEN UNCHANGED <<store, minted>>
       ELSE ServiceNewMacaroonDo(id, res.caveats)
    /\ UNCHANGED <<reqMacaroons, inStorage, checkRet, auth, web, bakerytest, oven, acl, browser>>

\* Request.AddClientMacaroon(m)
AddClientMacaroon(m) ==
    /\ Len(reqMacaroons) < MaxClientMacaroons
    /\ reqMacaroons' = Append(reqMacaroons, m)
    /\ inStorage' = IF m \in inStorage THEN inStorage
                    ELSE IF m.id \notin store THEN inStorage
                    ELSE inStorage \cup {m}
    /\ UNCHANGED <<store, minted, checkRet, auth, web, bakerytest, oven, acl, browser>>

\* m.Verify(rootKey, check, discharges) with the root key of the storage
\* item of m: every first-party caveat must pass the check, and every
\* third-party caveat needs a discharge bound to m among the discharges;
\* the client has bound none.
ServiceVerify(m, ds) ==
    IF \E k \in DOMAIN m.caveats : m.caveats[k].Location # ""
    THEN "cannot find discharge macaroon for caveat"
    ELSE IF \E k \in DOMAIN m.caveats : m.caveats[k].Condition # "true"
    THEN "caveat not satisfied"
    ELSE "nil"

\* The loop of Request.Check from the k-th macaroon on.
RECURSIVE CheckLoop(_, _)
CheckLoop(k, anError) ==
    IF k > Len(reqMacaroons) THEN "verification failed: " \o anError
    ELSE IF reqMacaroons[k] \notin inStorage THEN CheckLoop(k + 1, anError)
    ELSE LET err == ServiceVerify(reqMacaroons[k], reqMacaroons)
         IN  IF err = "nil" THEN "nil" ELSE CheckLoop(k + 1, err)

\* Request.Check
RequestCheck ==
    /\ checkRet' =
          [macaroons |-> reqMacaroons,
           err |-> IF Len(reqMacaroons) = 0
                   THEN "verification failed: no possible macaroons found"
                   ELSE CheckLoop(1, "nil")]
    /\ UNCHANGED <<store, minted, reqMacaroons, inStorage, auth, web, bakerytest, oven, acl, browser>>

NextService ==
    \/ \E id \in MacaroonIds, caveats \in ServiceCaveats : ServiceNewMacaroon(id, caveats)
    \/ \E id \in CaveatIds, res \in ServiceCheckerResults : ServiceDischarge(id, res)
    \/ \E m \in minted : AddClientMacaroon(m)
    \/ RequestCheck

InitService ==
    /\ InitAuth({}, {"nil"}, {}, <<>>)
    /\ NoWeb
    /\ NoFlow
    /\ NoTls
    /\ NoOven
    /\ NoService
    /\ NoAcl
    /\ NoBrowser

SpecService == InitService /\ [][NextService]_vars

\* The macaroons minted by Discharge: their id is a caveat id.
IsDischarge(m) == m.id \in CaveatIds

\* C33: a discharge macaroon minted by the service and presented on its
\* own to the service does not verify: Check fails, because the id of the
\* discharge macaroon is not in the service's storage.
C33_DischargeIsNoNormalMacaroon ==
    Len(checkRet.macaroons) = 1 /\ IsDischarge(checkRet.macaroons[1])
        => /\ checkRet.err # "nil"
           /\ checkRet.macaroons[1] \notin inStorage

----------------------------------------------------------------------------
(* C34.  ACLAuthorizer (src/unnamed/part_004).                              *)

\* largest number of ops in one call of ACLAuthorizer.Authorize
MaxAclOps == 2

Everyone == "everyone"

\* The ACLs GetACLs gives for an op.
Acls == {<<>>, <<Everyone>>, <<"alice">>}

\* The ops of a call (nil, or a list) and what GetACLs returns for them:
\* an error, or a list of ACLs that need not be as long as the ops.
AclOpLists ==
    {[nil |-> TRUE, list |-> <<>>]}
        \cup {[nil |-> FALSE, list |-> l] :
                  l \in UNION {[1..n -> {ReadOp, WriteOp}] : n \in 0..MaxAclOps}}
GetACLsResults ==
    {[acls |-> <<>>, err |-> "no such entity"]}
        \cup {[acls |-> l, err |-> "nil"] :
                  l \in UNION {[1..n -> Acls] : n \in 0..MaxAclOps}}

\* The identity of the AuthInfo in the context: there is no AuthInfo, its
\* Identity does not implement ACLIdentity, or it does.
AuthInfoIdentities == {"none", "Identity", "ACLIdentity"}

\* What ACLIdentity.Allow answers for each ACL.
AllowResults == [Acls -> {"true", "false", "error"}]

\* The calls of Authorize: the authorizer's AllowPublic and GetACLs, the
\* context's identity with its Allow, and the arguments id and ops.
AclCalls ==
    [called : {TRUE}, AllowPublic : BOOLEAN, GetACLs : GetACLsResults,
     ident : AuthInfoIdentities, Allow : AllowResults,
     id : {"nil", "bob"}, ops : AclOpLists]

\* isPublicACL
isPublicACL(a) == \E k \in DOMAIN a : a[k] = Everyone

AclReturn(allowed, err) == [returned |-> TRUE, allowed |-> allowed, err |-> err]

\* ACLAuthorizer.Authorize(ctxt, id, ops) for the call c.
ACLAuthorize(c) ==
    IF c.ops.nil THEN AclReturn(<<>>, "nil")
    ELSE LET acls == c.GetACLs.acls
         IN  IF c.GetACLs.err # "nil" THEN AclReturn(<<>>, "cannot retrieve ACLs")
             ELSE IF Len(acls) # Len(c.ops.list) THEN AclReturn(<<>>, "mismatched ACLs")
             ELSE IF c.ident = "ACLIdentity"
             THEN IF \E k \in DOMAIN acls : c.Allow[acls[k]] = "error"
                  THEN AclReturn(<<>>, "cannot check permissions")
                  ELSE AclReturn([k \in DOMAIN acls |-> c.Allow[acls[k]] = "true"], "nil")
             ELSE AclReturn([k \in DOMAIN acls |-> c.AllowPublic /\ isPublicACL(acls[k])],
                            "nil")

\* A caller calls Authorize.
CallAuthorize ==
    /\ ~aclRet.returned
    /\ aclRet' = ACLAuthorize(aclCall)
    /\ UNCHANGED <<aclCall, auth, web, bakerytest, oven, service, browser>>

NextAcl == CallAuthorize

InitAcl ==
    /\ InitAuth({}, {"nil"}, {}, <<>>)
    /\ NoWeb
    /\ NoFlow
    /\ NoTls
    /\ NoOven
    /\ NoService
    /\ NoBrowser
    /\ aclCall \in AclCalls
    /\ aclRet = [returned |-> FALSE]

SpecAcl == InitAcl /\ [][NextAcl]_vars

\* C34: when Authorize succeeds it returns one result for each op, and an
\* op is authorized exactly when its ACL contains "everyone" (for a
\* request with no logged-in user: when AllowPublic is set as well) or the
\* identity of the context's AuthInfo is an ACLIdentity whose Allow
\* returns true for the ACL.
C34_EveryoneOrAllowed ==
    aclRet.returned /\ aclRet.err = "nil" /\ ~aclCall.ops.nil
        => /\ Len(aclRet.allowed) = Len(aclCall.ops.list)
           /\ \A k \in DOMAIN aclRet.allowed :
                 aclRet.allowed[k] <=>
                     \/ /\ isPublicACL(aclCall.GetACLs.acls[k])
                        /\ aclCall.AllowPublic \/ aclCall.ident # "none"
                     \/ /\ aclCall.ident = "ACLIdentity"
                        /\ aclCall.Allow[aclCall.GetACLs.acls[k]] = "true"

----------------------------------------------------------------------------
(* C35.  WebBrowserInteractor.Interact (src/httpbakery/browser.go).         *)

\* The location of the discharger, given to Interact.
BrowserLocation == "https://as"

\* The visitWaitParams a discharger may put in the browser-window entry of
\* InteractionMethods, and the legacy fields Info.VisitURL and Info.WaitURL
\* it may set.
VisitWaitParams == [VisitURL : {"/visit", ":bad"}, WaitURL : {"/wait", ":bad"}]
NoParams == [VisitURL |-> "", WaitURL |-> ""]
LegacyVisitURLs == {"", "/visit", "/old-visit"}
LegacyWaitURLs == {"", "/wait", "/old-wait"}

\* The ErrorInfo values of an error response.
BrowserInfos ==
    {NilInfo}
        \cup {[NewInfo EXCEPT !.VisitURL = v, !.WaitURL = w] :
                  v \in LegacyVisitURLs, w \in LegacyWaitURLs}
        \cup {[NewInfo EXCEPT !.methodsNil = FALSE,
                              !.InteractionMethods =
                                  [k \in Kinds |->
                                      IF k = BrowserWindowInteractionKind THEN b ELSE a],
                              !.VisitURL = v, !.WaitURL = w] :
                  b \in {NoData, "scalar", "visitWaitParams"},
                  a \in {NoData, "interactionParams"},
                  v \in LegacyVisitURLs, w \in LegacyWaitURLs}

\* The errors given to Interact: e is the *Error, params the value of its
\* browser-window entry when that is a visitWaitParams object.
BrowserErrors ==
    {x \in [e : {HttpError(code, code, info, 0) :
                     code \in {ErrInteractionRequired, ErrBadRequest},
                     info \in BrowserInfos},
            params : VisitWaitParams \cup {NoParams}] :
        (x.params # NoParams) <=>
            (x.e.Info.InteractionMethods[BrowserWindowInteractionKind] = "visitWaitParams")}

\* The visitWaitParams that InteractionMethod(wi.Kind(), &p) leaves in p:
\* the browser-window entry, or for a legacy error the legacy fields.
BrowserWindowParams(x) ==
    IF x.e.Info.methodsNil /\ x.e.Info.VisitURL # ""
    THEN [VisitURL |-> x.e.Info.VisitURL, WaitURL |-> x.e.Info.WaitURL]
    ELSE x.params

\* relativeURL(base, new), called at browser.go:71 and 75: the results it
\* may give.  A URL that does not parse is an error; an empty one may be
\* refused or resolve to the base.
relativeURL(base, new) ==
    IF new = ":bad" THEN {[err |-> TRUE, url |-> ""]}
    ELSE IF new = "" THEN {[err |-> TRUE, url |-> ""], [err |-> FALSE, url |-> base]}
    ELSE {[err |-> FALSE, url |-> base \o new]}

BrowserAt(at, visitURL, waitURL) == [at |-> at, visitURL |-> visitURL, waitURL |-> waitURL]
BrowserReturn(macaroon, err) == [returned |-> TRUE, macaroon |-> macaroon, err |-> err]
NotReturned == [returned |-> FALSE, macaroon |-> FALSE, err |-> "nil"]

\* Interact, up to the call of the opener, taking the URLs from the legacy
\* fields Info.VisitURL and Info.WaitURL as the code does.
InteractStart ==
    /\ bpc.at = "Interact"
    /\ LET o == InteractionMethod(irErr.e, BrowserWindowInteractionKind)
       IN  IF o.err # "nil"
           THEN /\ bret' = BrowserReturn(FALSE, o.err)
                /\ bpc' = BrowserAt("done", "", "")
           ELSE \E rv \in relativeURL(BrowserLocation, irErr.e.Info.VisitURL),
                   rw \in relativeURL(BrowserLocation, irErr.e.Info.WaitURL) :
                    IF rv.err
                    THEN /\ bret' = BrowserReturn(FALSE, "cannot make relative visit URL")
                         /\ bpc' = BrowserAt("done", "", "")
                    ELSE IF rw.err
                    THEN /\ bret' = BrowserReturn(FALSE, "cannot make relative wait URL")
                         /\ bpc' = BrowserAt("done", "", "")
                    ELSE /\ bpc' = BrowserAt("open", rv.url, rw.url)
                         /\ UNCHANGED bret
    /\ UNCHANGED <<irErr, opened, polled, auth, web, bakerytest, oven, service, acl>>

\* OpenWebBrowser: webbrowser.Open answered r.
OpenWebBrowser(r) == IF r = "ErrNoBrowser" THEN "nil" ELSE r

\* open(visitURL): wi.OpenWebBrowser, or OpenWebBrowser when that is nil.
InteractOpen ==
    /\ bpc.at = "open"
    /\ \E r \in {OpenWebBrowser(a) : a \in {"nil", "ErrNoBrowser", "exec failed"}}
                \cup {"nil", "opener failed"} :
        /\ opened' = Append(opened, [url |-> bpc.visitURL, err |-> r])
        /\ IF r # "nil"
           THEN /\ bret' = BrowserReturn(FALSE, r)
                /\ bpc' = BrowserAt("done", "", "")
           ELSE /\ bpc' = [bpc EXCEPT !.at = "wait"]
                /\ UNCHANGED bret
    /\ UNCHANGED <<irErr, polled, auth, web, bakerytest, oven, service, acl>>

\* waitForMacaroon(ctx, client, waitURL): the long poll returns a macaroon
\* or an error.
InteractWait ==
    /\ bpc.at = "wait"
    /\ polled' = Append(polled, bpc.waitURL)
    /\ \E r \in {BrowserReturn(TRUE, "nil"), BrowserReturn(FALSE, "wait failed")} :
          bret' = r
    /\ bpc' = BrowserAt("done", "", "")
    /\ UNCHANGED <<irErr, opened, auth, web, bakerytest, oven, service, acl>>

NextBrowser ==
    \/ InteractStart
    \/ InteractOpen
    \/ InteractWait

InitBrowser ==
    /\ InitAuth({}, {"nil"}, {}, <<>>)
    /\ NoWeb
    /\ NoFlow
    /\ NoTls
    /\ NoOven
    /\ NoService
    /\ NoAcl
    /\ irErr \in BrowserErrors
    /\ bpc = BrowserAt("Interact", "", "")
    /\ opened = <<>>
    /\ polled = <<>>
    /\ bret = NotReturned

SpecBrowser == InitBrowser /\ [][NextBrowser]_vars

\* The URLs that a reference of the parameters resolves to.
Resolved(ref) ==
    {r.url : r \in {x \in relativeURL(BrowserLocation, ref) : ~x.err}}

\* The error has a browser-window method: InteractionMethod succeeds.
HasBrowserWindowMethod ==
    InteractionMethod(irErr.e, BrowserWindowInteractionKind).err = "nil"

\* C35: Interact opens the browser at the VisitURL of the error's
\* browser-window parameters and polls the WaitURL of the same parameters
\* only after the opener has returned without error; when the opener fails
\* or the error has no browser-window method it makes no wait request and
\* returns an error.
C35_OpenVisitThenPollWait ==
    /\ \A k \in DOMAIN opened :
          opened[k].url \in Resolved(BrowserWindowParams(irErr).VisitURL)
    /\ \A k \in DOMAIN polled :
          /\ polled[k] \in Resolved(BrowserWindowParams(irErr).WaitURL)
          /\ opened # <<>> /\ opened[Len(opened)].err = "nil"
    /\ bret.returned /\ Resolved(BrowserWindowParams(irErr).VisitURL) # {}
           /\ Resolved(BrowserWindowParams(irErr).WaitURL) # {}
           /\ BrowserWindowParams(irErr).VisitURL # ""
           /\ BrowserWindowParams(irErr).WaitURL # ""
           /\ HasBrowserWindowMethod
          => opened # <<>>
    /\ bret.returned
           /\ (~HasBrowserWindowMethod \/ \E k \in DOMAIN opened : opened[k].err # "nil")
          => polled = <<>> /\ bret.err # "nil" /\ ~bret.macaroon

\* The order and the failures are as the claim says: the wait URL is
\* polled at most once and only after the one call of the opener has
\* returned nil, and with no browser-window method or a failed opener no
\* wait request is made and an error is returned.
C35_WaitOnlyAfterOpen ==
    /\ Len(opened) <= 1 /\ Len(polled) <= 1
    /\ polled # <<>> => opened # <<>> /\ opened[1].err = "nil"
    /\ bret.returned
           /\ (~HasBrowserWindowMethod \/ \E k \in DOMAIN opened : opened[k].err # "nil")
          => polled = <<>> /\ bret.err # "nil" /\ ~bret.macaroon

----------------------------------------------------------------------------
(* C36.  The identity and the login macaroon.                               *)

\* C36: whenever the checker has an identity after init, from a login
\* macaroon or from IdentityFromContext, a slice is indexed under LoginOp:
\* allowAny never panics with "no macaroon info found for login op", and
\* the slice it marks used for the identity is the login macaroon the
\* identity came from.
C36_IdentityHasLoginSlice ==
    /\ initOnce.done /\ identity # NoIdentity => authIndexes[LoginOp] # <<>>
    /\ \A c \in Callers : ~ret[c].val.trace.panicked
    /\ \A c \in Decided :
          identity # NoIdentity =>
              /\ identityFrom >= 1
              /\ ret[c].val.trace.used[identityFrom]

\* With an identity taken from a login macaroon the claim holds: that
\* slice is the first indexed under LoginOp, and every decision marks it
\* used.
C36_LoginMacaroonIsIndexed ==
    /\ initOnce.done /\ identityFrom >= 1 =>
          authIndexes[LoginOp] # <<>> /\ authIndexes[LoginOp][1] = identityFrom
    /\ \A c \in Callers : ret[c].val.trace.panicked => identityFrom < 1
    /\ \A c \in Decided :
          identityFrom >= 1 => ret[c].val.trace.used[identityFrom]

----------------------------------------------------------------------------
(* C38.  The cached error of init.                                          *)

\* One caller makes several calls of any method under any clock, on
\* macaroons that verify; the login macaroon expires.
InitCached ==
    InitWith({LoginAlice, ReadExpiring}, {"nil", "OpenAuthorizer"},
             RequestsIn(Methods, {<<LoginOp>>, <<ReadOp>>}, LateContexts),
             [c \in {"c1"} |-> MaxCalls])

SpecCached == InitCached /\ [][Next]_vars

\* Init is over and IdentityFromContext failed in it.
IdentityFailed ==
    initOnce.done /\ idCalls = 1 /\ initError.kind # "nil"

\* C38: when IdentityFromContext fails during init the error is kept: the
\* failing call and every later Allow, AllowAny or AllowCapability call,
\* under any context, returns an error, init is not run again, the
\* Authorizer is not consulted and no slice is reported as used.
C38_InitErrorIsCached ==
    /\ [](IdentityFailed =>
            /\ initRuns = 1
            /\ identity = NoIdentity
            /\ \A c \in Callers : ret[c].state # "panicked"
            /\ \A c \in Returned :
                  /\ ret[c].val.err.kind # "nil"
                  /\ ~ret[c].val.trace.called
                  /\ ret[c].val.trace.usedNil
                  /\ ret[c].val.authInfoNil \/ ret[c].val.authInfo.Macaroons = <<>>)
    /\ [][IdentityFailed =>
            /\ IdentityFailed'
            /\ UNCHANGED <<initError, initRuns, idCalls>>]_vars

\* After the failure a second call, of AllowAny under a clock other than
\* the one init ran with, has returned the error, on macaroons that hold a
\* slice for the operation asked for.
C38_Witness ==
    /\ IdentityFailed
    /\ budget["c1"] = 0
    /\ "c1" \in Returned
    /\ req["c1"].method = "AllowAny"
    /\ req["c1"].ctxt # initCtxt
    /\ req["c1"].ops = <<ReadOp>>
    /\ authIndexes[ReadOp] # <<>>
    /\ p.Authorizer = "OpenAuthorizer"
    /\ ret["c1"].val.err.kind # "nil"

----------------------------------------------------------------------------
(* C37.  The outcome reaches the waiter.                                    *)

\* A successful outcome of the id has been recorded and not yet taken: it
\* is in the buffer of the channel (bakerytest.go), or the future is done
\* with a nil error (part_000).
SuccessRecorded(id) ==
    /\ id \in DOMAIN waiting
    /\ IF variant = "bakerytest.go"
       THEN waiting[id].c # <<>> /\ Head(waiting[id].c).err = "nil"
       ELSE waiting[id].done /\ waiting[id].err = "nil"

\* Handler h serves a Wait request that has not received anything yet, a
\* successful outcome of its id is recorded, and the checker accepts.
WaitHasOutcome(h) ==
    /\ hreq[h].op = "wait"
    /\ hpc[h] \in {"Wait", "Wait.locked", "Wait.select"}
    /\ SuccessRecorded(hreq[h].id)
    /\ ThirdPartyChecker(setup.checker).err = "nil"

GotMacaroon(h) == hpc[h] = "idle" /\ hret[h].kind = "macaroon"

\* C37: when FinishInteraction(id, cavs, nil) has succeeded, before the
\* Wait request for the id arrived or while it is pending, and the checker
\* accepts, that Wait request eventually returns a discharge macaroon.
C37_OutcomeReachesWait ==
    \A h \in Handlers : WaitHasOutcome(h) ~> GotMacaroon(h)

\* With the future of part_000 every such Wait request returns the
\* macaroon, as long as the runtime does not stop the process.
C37_FutureReachesEveryWait ==
    \A h \in Handlers :
        (variant = "part_000" /\ WaitHasOutcome(h)) ~> (GotMacaroon(h) \/ crashed)

\* With the channel of bakerytest.go the outcome reaches the Wait request
\* when no other Wait request for the id is being served or follows.
C37_ChannelReachesOneWait ==
    \A h \in Handlers :
        (variant = "bakerytest.go" /\ WaitHasOutcome(h))
            ~> (GotMacaroon(h) \/ \E g \in Handlers \ {h} :
                                      hreq[g].op = "wait" /\ hreq[g].id = hreq[h].id)

----------------------------------------------------------------------------
(* C39.  Discharge ids are unique and a registration leaves the entries     *)
(* of the other ids alone.                                                  *)

\* The map f without the key k.
WithoutKey(f, k) == [x \in DOMAIN f \ {k} |-> f[x]]

\* The unlocked map write of part_000's SetInteraction overlaps the write
\* of another handler and the runtime does not detect it: a Go map written
\* by two goroutines at once may lose an entry that was in it.
SetInteractionTorn(h) ==
    /\ ~crashed /\ variant = "part_000" /\ hpc[h] = "SetInteraction.write"
    /\ \E g \in Handlers \ {h} : hpc[g] = "SetInteraction.write"
    /\ \E k \in DOMAIN waiting \ {hreq[h].id} :
           waiting' = Put(WithoutKey(waiting, k), hreq[h].id, NewDischarge)
    /\ events' = [events EXCEPT !.accesses = @ \cup {Access("SetInteraction", "waiting", "")}]
    /\ Returns(h, InteractionRequiredReturn("visit/wait"))
    /\ UNCHANGED <<variant, setup, maxId, discharges, mu, imu, hreq, hres, quota, crashed, auth, web, tls, units>>

NextRace ==
    \/ NextFlow
    \/ \E h \in Handlers : SetInteractionTorn(h)

SpecRace == InitFlow /\ [][NextRace]_vars

\* The ids that NewInteractionRequiredError has given out: neither table
\* ever deletes an entry.
RegisteredIds == IF variant = "bakerytest.go" THEN DOMAIN waiting ELSE discharges

\* Handler h takes the step of NewInteractionRequiredError that assigns the id.
AssignsId(h) ==
    hpc[h] = "NewInteractionRequiredError.locked" /\ hpc'[h] # hpc[h]

\* Handler h takes a step that registers its id in a table.
Registers(h) ==
    hpc[h] \in {"NewInteractionRequiredError.locked", "SetInteraction.write"} /\ hpc'[h] # hpc[h]

\* The id that handler h registers in this step.
RegisteredBy(h) == hreq'[h].id

\* No call returns an id that an earlier call has returned.
IdsAreUnique ==
    \A h \in Handlers : AssignsId(h) => RegisteredBy(h) \notin RegisteredIds

\* A registration step writes the entry of its own id, which was not
\* there, and leaves every other entry as it was.
EntriesAreKept ==
    \A h \in Handlers :
        Registers(h) =>
            /\ discharges \subseteq discharges'
            /\ \A id \in DOMAIN waiting :
                   /\ id # RegisteredBy(h)
                   /\ id \in DOMAIN waiting'
                   /\ waiting'[id] = waiting[id]

C39_IdsAreUnique == [][IdsAreUnique]_vars

\* With the single table of bakerytest.go, written under d.mu, a
\* registration leaves the entries of the other ids alone.
C39_ChannelVariantKeepsEntries ==
    [][variant = "bakerytest.go" => EntriesAreKept]_vars

=============================================================================
